---- MODULE Spec2Model ----
(***************************************************************************)
(* Sport Agent: the JSON preference store (storage.py), the per-user daily *)
(* digest scheduler (scheduler.py) and the request handlers and digest     *)
(* graph of main.py.                                                       *)
(*                                                                         *)
(* Python strings that the code parses (delivery_time) are sequences of    *)
(* one-character strings; the APScheduler job table is a bag of job        *)
(* records (its order, which follows next_run_time, is not modelled).      *)
(***************************************************************************)
EXTENDS Bags, FiniteSets, Integers, Naturals, Sequences, TLC

VARIABLES
    file,        \* user_preferences.json: data["users"], user_id -> record
    jobs,        \* scheduler: the job table of the BackgroundScheduler
    running,     \* scheduler state: TRUE between start() and shutdown()
    now,         \* the wall clock read by datetime.now()
    last,        \* the last completed call: operation, arguments, response
    appended,    \* per user, every history entry stored since the record was written
    thr,         \* the threads that run a digest, each with its position and locals
    graph        \* the graph run in progress: supersteps, pending writes, state

vars == <<file, jobs, running, now, last, appended, thr, graph>>

----------------------------------------------------------------------------
(* Bounds of the model *)

MaxClock == 2        \* digests generated in one behaviour of Spec
MaxAppends == 35     \* save_digest_history calls per user in SpecHistory
MaxRuns == 1         \* digests generated in one behaviour of SpecRun
MaxTextLen == 5      \* characters of a text handed to _compact
MaxLimit == 3        \* the limit handed to _compact
MaxItems == 2        \* names in a list handed to _classify_sport

(* Program constants *)

HistoryCap == 30     \* storage.py: digest_history[-30:]

----------------------------------------------------------------------------
(* Values *)

UserIds == {"u1", "u2"}
None == "None"

\* "07:00", "18:30": well formed; "25:00": hour out of range
T0700 == <<"0", "7", ":", "0", "0">>
T1830 == <<"1", "8", ":", "3", "0">>

\* the (delivery_time, timezone) pairs that requests carry: two that
\* schedule, one with a bad time and one with an unknown zone
Requests ==
    LET T2500 == <<"2", "5", ":", "0", "0">>
    IN  {<<T0700, "America/Sao_Paulo">>, <<T1830, "UTC">>,
         <<T2500, "UTC">>, <<T0700, "Mars/Phobos">>}

NoRecord == [present |-> FALSE]

----------------------------------------------------------------------------
(* Python string and list primitives used by the code *)

\* str.split(sep): the pieces between the occurrences of sep
RECURSIVE Split(_, _)
Split(s, sep) ==
    IF \A i \in 1..Len(s) : s[i] # sep
    THEN <<s>>
    ELSE LET i == CHOOSE k \in 1..Len(s) :
                      s[k] = sep /\ \A m \in 1..(k - 1) : s[m] # sep
         IN  <<SubSeq(s, 1, i - 1)>> \o Split(SubSeq(s, i + 1, Len(s)), sep)

\* int(s) raises ValueError unless s is a non-empty run of digits
IsInt(s) ==
    LET Digits == {"0", "1", "2", "3", "4", "5", "6", "7", "8", "9"}
    IN  Len(s) > 0 /\ \A i \in 1..Len(s) : s[i] \in Digits

RECURSIVE IntOf(_)
IntOf(s) ==
    LET DigitVal(c) ==
            CASE c = "0" -> 0 [] c = "1" -> 1 [] c = "2" -> 2 [] c = "3" -> 3
              [] c = "4" -> 4 [] c = "5" -> 5 [] c = "6" -> 6 [] c = "7" -> 7
              [] c = "8" -> 8 [] c = "9" -> 9
    IN  IF Len(s) = 0 THEN 0
        ELSE 10 * IntOf(SubSeq(s, 1, Len(s) - 1)) + DigitVal(s[Len(s)])

\* lst[-n:] : the last n elements when 0 < n < len, the whole list when
\* n >= len or n = 0 (lst[-0:] is lst[0:]), and lst[k:] when n = -k < 0
LastN(lst, n) ==
    IF n > 0
    THEN IF n >= Len(lst) THEN lst ELSE SubSeq(lst, Len(lst) - n + 1, Len(lst))
    ELSE SubSeq(lst, 1 - n, Len(lst))

----------------------------------------------------------------------------
(* storage.py *)

\* a load_preferences that gives default preferences for an unknown user
load_preferences_default(f, user_id) ==
    IF f[user_id].present THEN f[user_id]
    ELSE [present |-> TRUE, user_id |-> user_id, delivery_time |-> <<>>,
          timezone |-> "", digest_history |-> <<>>]

\* load_preferences: data.get("users", {}).get(user_id)
load_preferences(f, user_id) == f[user_id]

\* list_all_users: the keys of data["users"]
list_all_users(f) == {u \in DOMAIN f : f[u].present}

\* save_preferences: data["users"][user_id] = preferences; io = FALSE is an
\* exception raised by the file access, caught and reported as False
save_preferences(f, user_id, preferences, io) ==
    IF io
    THEN [ok |-> TRUE, file |-> [f EXCEPT ![user_id] = preferences]]
    ELSE [ok |-> FALSE, file |-> f]

\* delete_preferences
delete_preferences(f, user_id, io) ==
    IF io /\ f[user_id].present
    THEN [ok |-> TRUE, file |-> [f EXCEPT ![user_id] = NoRecord]]
    ELSE [ok |-> FALSE, file |-> f]

\* a variant of save_digest_history that keeps the first 30 entries
save_digest_history_head(f, user_id, digest, timestamp, io) ==
    IF io /\ f[user_id].present
    THEN LET h == Append(f[user_id].digest_history,
                         [digest |-> digest, timestamp |-> timestamp])
         IN  [ok |-> TRUE,
              file |-> [f EXCEPT ![user_id].digest_history =
                            SubSeq(h, 1, IF Len(h) < HistoryCap THEN Len(h)
                                         ELSE HistoryCap)]]
    ELSE [ok |-> FALSE, file |-> f]

\* save_digest_history: False for an unknown user or when the file access
\* raises (io = FALSE); otherwise append, then keep only the last 30
save_digest_history(f, user_id, digest, timestamp, io) ==
    IF io /\ f[user_id].present
    THEN LET h == Append(f[user_id].digest_history,
                         [digest |-> digest, timestamp |-> timestamp])
         IN  [ok |-> TRUE,
              file |-> [f EXCEPT ![user_id].digest_history = LastN(h, HistoryCap)]]
    ELSE [ok |-> FALSE, file |-> f]

\* get_digest_history: history[-limit:]
get_digest_history(f, user_id, limit) ==
    IF ~f[user_id].present THEN <<>>
    ELSE LastN(f[user_id].digest_history, limit)

----------------------------------------------------------------------------
(* scheduler.py *)

JobId(user_id) == <<"digest_", user_id>>
JobName(user_id) == <<"Daily digest for ", user_id>>

\* CronTrigger(hour=, minute=, timezone=): ValueError outside 0..23 / 0..59
CronTrigger(hour, minute, tz) ==
    IF hour \in 0..23 /\ minute \in 0..59
    THEN [ok |-> TRUE, hour |-> hour, minute |-> minute, timezone |-> tz]
    ELSE [ok |-> FALSE, hour |-> 0, minute |-> 0, timezone |-> tz]

\* the first lines of schedule_daily_digest's try block: unpack the split,
\* look the zone up, convert the fields, build the trigger; ok = FALSE when
\* any of them raises
BuildTrigger(delivery_time, timezone) ==
    LET \* the zones pytz knows among those that requests carry
        KnownTimezones == {"America/Sao_Paulo", "UTC"}
    IN  LET parts == Split(delivery_time, ":")
        IN  IF Len(parts) = 2 /\ timezone \in KnownTimezones
               /\ IsInt(parts[1]) /\ IsInt(parts[2])
            THEN CronTrigger(IntOf(parts[1]), IntOf(parts[2]), timezone)
            ELSE [ok |-> FALSE, hour |-> 0, minute |-> 0, timezone |-> timezone]

\* the jobs of the table that carry one id
JobsWithId(js, id) == {j \in BagToSet(js) : j.id = id}

HasJob(js, user_id) == JobsWithId(js, JobId(user_id)) # {}

JobCount(js, id) ==
    BagCardinality([j \in JobsWithId(js, id) |-> CopiesIn(j, js)])

\* a variant of add_job that stores the job without looking for its id
add_job_append(js, job, replace_existing) ==
    [ok |-> TRUE, jobs |-> js (+) SetToBag({job})]

\* scheduler.add_job(..., id=, replace_existing=): a job with a new id is
\* stored; a job with a known id replaces the stored one, or raises
\* ConflictingIdError without replace_existing
add_job(js, job, replace_existing) ==
    IF JobsWithId(js, job.id) = {}
    THEN [ok |-> TRUE, jobs |-> js (+) SetToBag({job})]
    ELSE IF replace_existing
         THEN LET old == CHOOSE j \in JobsWithId(js, job.id) : TRUE
              IN  [ok |-> TRUE,
                   jobs |-> (js (-) SetToBag({old})) (+) SetToBag({job})]
         ELSE [ok |-> FALSE, jobs |-> js]

\* a variant of remove_job that leaves the table alone
remove_job_keep(js, id) == [ok |-> JobsWithId(js, id) # {}, jobs |-> js]

\* scheduler.remove_job(id): JobLookupError when no job has the id
remove_job(js, id) ==
    IF JobsWithId(js, id) = {}
    THEN [ok |-> FALSE, jobs |-> js]
    ELSE LET old == CHOOSE j \in JobsWithId(js, id) : TRUE
         IN  [ok |-> TRUE, jobs |-> js (-) SetToBag({old})]

\* schedule_daily_digest: every exception is logged and swallowed, the
\* table is then left as it was
schedule_daily_digest(js, user_id, delivery_time, timezone) ==
    LET trigger == BuildTrigger(delivery_time, timezone)
        job == [id |-> JobId(user_id), name |-> JobName(user_id),
                args |-> <<user_id>>,
                trigger |-> [hour |-> trigger.hour, minute |-> trigger.minute,
                             timezone |-> trigger.timezone]]
    IN  IF trigger.ok THEN add_job(js, job, TRUE).jobs ELSE js

\* an unschedule_digest that returns True whether or not remove_job raised
unschedule_digest_true(js, user_id) ==
    LET r == remove_job(js, JobId(user_id))
    IN  [ret |-> TRUE, jobs |-> r.jobs]

\* unschedule_digest: True when the job was removed, False when remove_job raised
unschedule_digest(js, user_id) ==
    LET r == remove_job(js, JobId(user_id))
    IN  [ret |-> r.ok, jobs |-> r.jobs]

\* get_scheduled_jobs: id and name of every job (next_run is a function of
\* the trigger and the clock and is left out)
get_scheduled_jobs(js) ==
    [x \in {[id |-> j.id, name |-> j.name] : j \in BagToSet(js)} |->
        BagCardinality([j \in {k \in BagToSet(js) : k.id = x.id /\ k.name = x.name}
                           |-> CopiesIn(j, js)])]

\* the loop of start_scheduler over list_all_users()
RECURSIVE RestoreAll(_, _, _)
RestoreAll(js, f, ids) ==
    IF ids = {} THEN js
    ELSE LET u == CHOOSE x \in ids : TRUE
             prefs == load_preferences(f, u)
         IN  RestoreAll(schedule_daily_digest(js, u, prefs.delivery_time,
                                              prefs.timezone),
                        f, ids \ {u})

\* start_scheduler: io = FALSE is an exception from the store, caught by
\* the function's except, which ends the restore
start_scheduler(js, f, io) ==
    IF io THEN RestoreAll(js, f, list_all_users(f)) ELSE js

\* what graph.invoke(state) gives back: a final state with final_digest,
\* or an exception raised by a node
GraphOutcomes ==
    LET Digests == {"d1", "d2"}
    IN  {[ok |-> TRUE, final_digest |-> d] : d \in Digests}
            \cup {[ok |-> FALSE, final_digest |-> ""]}

\* a variant of generate_and_send_digest without the try/except
generate_and_send_digest_notry(f, user_id, loadOk, out, timestamp, io) ==
    IF ~loadOk
    THEN [file |-> f, saved |-> FALSE, propagated |-> TRUE, step |-> 1]
    ELSE IF ~load_preferences(f, user_id).present
         THEN [file |-> f, saved |-> FALSE, propagated |-> FALSE, step |-> 2]
         ELSE IF ~out.ok
              THEN [file |-> f, saved |-> FALSE, propagated |-> TRUE, step |-> 3]
              ELSE LET r == save_digest_history(f, user_id, out.final_digest,
                                                timestamp, io)
                   IN  [file |-> r.file, saved |-> r.ok, propagated |-> FALSE,
                        step |-> IF r.ok THEN 0 ELSE 4]

\* generate_and_send_digest: loadOk = FALSE is load_preferences raising,
\* out.ok = FALSE is graph.invoke raising, io = FALSE is the history write
\* failing (save_digest_history then returns False); the except clause
\* catches what is raised.  step tells where the run ended: 0 digest saved,
\* 1 load raised, 2 no preferences, 3 graph raised, 4 history not saved
generate_and_send_digest(f, user_id, loadOk, out, timestamp, io) ==
    IF ~loadOk
    THEN [file |-> f, saved |-> FALSE, propagated |-> FALSE, step |-> 1]
    ELSE IF ~load_preferences(f, user_id).present
         THEN [file |-> f, saved |-> FALSE, propagated |-> FALSE, step |-> 2]
         ELSE IF ~out.ok
              THEN [file |-> f, saved |-> FALSE, propagated |-> FALSE, step |-> 3]
              ELSE LET r == save_digest_history(f, user_id, out.final_digest,
                                                timestamp, io)
                   IN  [file |-> r.file, saved |-> r.ok, propagated |-> FALSE,
                        step |-> IF r.ok THEN 0 ELSE 4]

----------------------------------------------------------------------------
(* main.py: the request handlers, each one atomic *)

\* req.model_dump() with user_id set; a record written by save_preferences
\* has no digest_history key, which every reader takes as the empty list
PrefsDict(user_id, delivery_time, timezone) ==
    [present |-> TRUE, user_id |-> user_id, delivery_time |-> delivery_time,
     timezone |-> timezone, digest_history |-> <<>>]

\* the shape of the record kept in last
Call(op, user_id, status) ==
    [op |-> op, user |-> user_id, status |-> status, delivery_time |-> <<>>,
     timezone |-> "", digest |-> "", generated_at |-> -1, ret |-> FALSE,
     propagated |-> FALSE, had_job |-> FALSE]

\* startup_event -> start_scheduler, in a new process: scheduler.start(),
\* then the restore loop
StartupEvent ==
    /\ ~running
    /\ \E io \in BOOLEAN :
           /\ jobs' = start_scheduler(EmptyBag, file, io)
           /\ last' = [Call("start_scheduler", None, 0) EXCEPT !.ret = io]
    /\ running' = TRUE
    /\ UNCHANGED <<file, now, appended>>
    /\ UNCHANGED <<thr, graph>>

\* shutdown_event -> stop_scheduler, and the end of the process: the job
\* table lives in memory only
ShutdownEvent ==
    /\ running
    /\ running' = FALSE
    /\ jobs' = EmptyBag
    /\ last' = Call("stop_scheduler", None, 0)
    /\ UNCHANGED <<file, now, appended>>
    /\ UNCHANGED <<thr, graph>>

\* POST /configure-interests; req_user = None stands for a request without
\* user_id, which gets a uuid4 no stored user has
ConfigureInterests(req_user, delivery_time, timezone) ==
    /\ running
    /\ \E user_id \in UserIds, io \in BOOLEAN :
        /\ IF req_user = None THEN ~file[user_id].present ELSE user_id = req_user
        /\ LET r == save_preferences(file, user_id,
                        PrefsDict(user_id, delivery_time, timezone), io)
           IN  /\ file' = r.file
               /\ IF r.ok
                  THEN /\ jobs' = schedule_daily_digest(jobs, user_id,
                                                       delivery_time, timezone)
                       /\ appended' = [appended EXCEPT ![user_id] = <<>>]
                       /\ last' = [Call("configure_interests", user_id, 200)
                                     EXCEPT !.had_job = HasJob(jobs, user_id)]
                  ELSE /\ last' = Call("configure_interests", user_id, 500)
                       /\ UNCHANGED <<jobs, appended>>
    /\ UNCHANGED <<running, now>>
    /\ UNCHANGED <<thr, graph>>

\* an update_preferences that stores the values without looking the user up
UpdatePreferences_upsert(user_id, delivery_time, timezone) ==
    /\ running
    /\ \E io \in BOOLEAN :
        LET r == save_preferences(file, user_id,
                     PrefsDict(user_id, delivery_time, timezone), io)
        IN  /\ file' = r.file
            /\ IF r.ok
               THEN /\ jobs' = schedule_daily_digest(jobs, user_id,
                                                    delivery_time, timezone)
                    /\ appended' = [appended EXCEPT ![user_id] = <<>>]
                    /\ last' = [Call("update_preferences", user_id, 200)
                                  EXCEPT !.had_job = HasJob(jobs, user_id)]
               ELSE /\ last' = Call("update_preferences", user_id, 500)
                    /\ UNCHANGED <<jobs, appended>>
    /\ UNCHANGED <<running, now>>
    /\ UNCHANGED <<thr, graph>>

\* PUT /preferences/{user_id}
UpdatePreferences(user_id, delivery_time, timezone) ==
    /\ running
    /\ IF ~load_preferences(file, user_id).present
       THEN /\ last' = Call("update_preferences", user_id, 404)
            /\ UNCHANGED <<file, jobs, appended>>
       ELSE \E io \in BOOLEAN :
            LET r == save_preferences(file, user_id,
                         PrefsDict(user_id, delivery_time, timezone), io)
            IN  /\ file' = r.file
                /\ IF r.ok
                   THEN /\ jobs' = schedule_daily_digest(jobs, user_id,
                                                        delivery_time, timezone)
                        /\ appended' = [appended EXCEPT ![user_id] = <<>>]
                        /\ last' = [Call("update_preferences", user_id, 200)
                                      EXCEPT !.had_job = HasJob(jobs, user_id)]
                   ELSE /\ last' = Call("update_preferences", user_id, 500)
                        /\ UNCHANGED <<jobs, appended>>
    /\ UNCHANGED <<running, now>>
    /\ UNCHANGED <<thr, graph>>

\* DELETE /preferences/{user_id}
DeleteUserPreferences(user_id) ==
    /\ running
    /\ \E io \in BOOLEAN :
        LET r == delete_preferences(file, user_id, io)
        IN  /\ file' = r.file
            /\ IF ~r.ok
               THEN /\ last' = Call("delete_user_preferences", user_id, 404)
                    /\ UNCHANGED <<jobs, appended>>
               ELSE /\ jobs' = unschedule_digest(jobs, user_id).jobs
                    /\ appended' = [appended EXCEPT ![user_id] = <<>>]
                    /\ last' = [Call("delete_user_preferences", user_id, 200)
                                  EXCEPT !.had_job = HasJob(jobs, user_id)]
    /\ UNCHANGED <<running, now>>
    /\ UNCHANGED <<thr, graph>>

\* POST /generate-digest
GenerateDigest(user_id) ==
    /\ running
    /\ IF ~load_preferences(file, user_id).present
       THEN /\ last' = Call("generate_digest", user_id, 404)
            /\ UNCHANGED <<file, now, appended>>
       ELSE /\ now < MaxClock
            /\ \E out \in GraphOutcomes, io \in BOOLEAN :
                IF ~out.ok
                THEN /\ last' = Call("generate_digest", user_id, 500)
                     /\ UNCHANGED <<file, now, appended>>
                ELSE LET r == save_digest_history(file, user_id,
                                  out.final_digest, now, io)
                         e == [digest |-> out.final_digest, timestamp |-> now]
                     IN  /\ file' = r.file
                         /\ now' = now + 1
                         /\ appended' = IF r.ok
                                        THEN [appended EXCEPT ![user_id] =
                                                  Append(@, e)]
                                        ELSE appended
                         /\ last' = [Call("generate_digest", user_id, 200)
                                       EXCEPT !.digest = out.final_digest,
                                              !.generated_at = now,
                                              !.ret = r.ok]
    /\ UNCHANGED <<jobs, running>>
    /\ UNCHANGED <<thr, graph>>

\* GET /digest-history/{user_id}: 404 for an unknown user, else the history
DigestHistory(user_id) ==
    /\ running
    /\ last' = IF ~load_preferences(file, user_id).present
               THEN Call("digest_history", user_id, 404)
               ELSE Call("digest_history", user_id, 200)
    /\ UNCHANGED <<file, jobs, running, now, appended>>
    /\ UNCHANGED <<thr, graph>>

\* the timer thread runs the job of user_id: generate_and_send_digest
OnFire(user_id) ==
    /\ running
    /\ HasJob(jobs, user_id)
    /\ now < MaxClock
    /\ \E loadOk \in BOOLEAN, out \in GraphOutcomes, io \in BOOLEAN :
        LET r == generate_and_send_digest(file, user_id, loadOk, out, now, io)
            e == [digest |-> out.final_digest, timestamp |-> now]
        IN  /\ file' = r.file
            /\ now' = IF r.saved THEN now + 1 ELSE now
            /\ appended' = IF r.saved
                           THEN [appended EXCEPT ![user_id] = Append(@, e)]
                           ELSE appended
            /\ last' = [Call("generate_and_send_digest", user_id, r.step)
                          EXCEPT !.ret = r.saved, !.propagated = r.propagated]
    /\ UNCHANGED <<jobs, running>>
    /\ UNCHANGED <<thr, graph>>

\* scheduler.schedule_daily_digest called on its own
ScheduleDailyDigest(user_id, delivery_time, timezone) ==
    /\ running
    /\ jobs' = schedule_daily_digest(jobs, user_id, delivery_time, timezone)
    /\ last' = [Call("schedule_daily_digest", user_id, 0)
                  EXCEPT !.delivery_time = delivery_time,
                         !.timezone = timezone,
                         !.had_job = HasJob(jobs, user_id)]
    /\ UNCHANGED <<file, running, now, appended>>
    /\ UNCHANGED <<thr, graph>>

\* scheduler.unschedule_digest called on its own
UnscheduleDigest(user_id) ==
    /\ running
    /\ LET r == unschedule_digest(jobs, user_id)
       IN  /\ jobs' = r.jobs
           /\ last' = [Call("unschedule_digest", user_id, 0)
                         EXCEPT !.ret = r.ret,
                                !.had_job = HasJob(jobs, user_id)]
    /\ UNCHANGED <<file, running, now, appended>>
    /\ UNCHANGED <<thr, graph>>

\* a thread that runs nothing, and no graph run
IdleThread ==
    [pc |-> "idle", op |-> "none", user |-> None, data |-> <<>>,
     digest |-> "", timestamp |-> -1, saved |-> FALSE]

Threads == {"t1", "t2"}

\* the thread that runs the startup and shutdown events
MainThread == "main"

IdleGraph == [status |-> "idle"]

Init ==
    /\ file = [u \in UserIds |-> NoRecord]
    /\ jobs = EmptyBag
    /\ running = FALSE
    /\ now = 0
    /\ last = Call("none", None, 0)
    /\ appended = [u \in UserIds |-> <<>>]
    /\ thr = [t \in Threads \cup {MainThread} |-> IdleThread]
    /\ graph = IdleGraph

Next ==
    \/ StartupEvent
    \/ ShutdownEvent
    \/ \E u \in UserIds \cup {None}, r \in Requests :
           ConfigureInterests(u, r[1], r[2])
    \/ \E u \in UserIds, r \in Requests : UpdatePreferences(u, r[1], r[2])
    \/ \E u \in UserIds : DeleteUserPreferences(u)
    \/ \E u \in UserIds : GenerateDigest(u)
    \/ \E u \in UserIds : DigestHistory(u)
    \/ \E u \in UserIds : OnFire(u)

Spec == Init /\ [][Next]_vars

\* the scheduler module driven directly, next to the handlers that call it
SpecSched ==
    Init /\
    [][
        \/ StartupEvent
        \/ ShutdownEvent
        \/ \E u \in UserIds \cup {None}, r \in Requests :
               ConfigureInterests(u, r[1], r[2])
        \/ \E u \in UserIds, r \in Requests : UpdatePreferences(u, r[1], r[2])
        \/ \E u \in UserIds : DeleteUserPreferences(u)
        \/ \E u \in UserIds, r \in Requests : ScheduleDailyDigest(u, r[1], r[2])
        \/ \E u \in UserIds : UnscheduleDigest(u)
    ]_vars

----------------------------------------------------------------------------
(* storage.save_digest_history called over and over for stored users *)

\* both users configured and scheduled, the service up
InitStored ==
    /\ file = [u \in UserIds |-> PrefsDict(u, T0700, "America/Sao_Paulo")]
    /\ jobs = RestoreAll(EmptyBag, file, UserIds)
    /\ running = TRUE
    /\ now = 0
    /\ last = Call("none", None, 0)
    /\ appended = [u \in UserIds |-> <<>>]
    /\ thr = [t \in Threads \cup {MainThread} |-> IdleThread]
    /\ graph = IdleGraph

\* save_digest_history(user_id, digest, timestamp); the caller numbers its
\* timestamps per user
SaveDigestHistory(user_id, digest) ==
    /\ Len(appended[user_id]) < MaxAppends
    /\ \E io \in BOOLEAN :
        LET ts == Len(appended[user_id])
            r == save_digest_history(file, user_id, digest, ts, io)
        IN  /\ file' = r.file
            /\ appended' = IF r.ok
                           THEN [appended EXCEPT ![user_id] =
                                     Append(@, [digest |-> digest,
                                                timestamp |-> ts])]
                           ELSE appended
            /\ last' = [Call("save_digest_history", user_id, 0)
                          EXCEPT !.ret = r.ok]
    /\ UNCHANGED <<jobs, running, now, thr, graph>>

SpecHistory ==
    InitStored /\
    [][
        \E u \in UserIds : SaveDigestHistory(u, "d1")
    ]_vars

----------------------------------------------------------------------------
(* Two threads, a request thread and the timer thread, each running a     *)
(* digest: generate_digest and generate_and_send_digest step by step; a   *)
(* step is what happens between two acquisitions of _file_lock            *)

InFlight == Cardinality({t \in Threads : thr[t].pc = "graph"})

\* load_preferences at the head of generate_digest / generate_and_send_digest
LoadPrefs(t, op, user_id) ==
    /\ running
    /\ thr[t].pc = "idle"
    /\ now + InFlight < MaxClock
    /\ op = "generate_and_send_digest" => HasJob(jobs, user_id)
    /\ thr' = [thr EXCEPT ![t] =
                 [IdleThread EXCEPT
                    !.op = op, !.user = user_id,
                    !.pc = IF load_preferences(file, user_id).present
                           THEN "graph" ELSE "done"]]
    /\ UNCHANGED <<file, jobs, running, now, last, appended, graph>>

\* graph.invoke(state) and datetime.now().isoformat()
GraphStep(t) ==
    /\ thr[t].pc = "graph"
    /\ \E out \in GraphOutcomes :
        IF out.ok
        THEN /\ thr' = [thr EXCEPT ![t].pc = "history_load",
                                   ![t].digest = out.final_digest,
                                   ![t].timestamp = now]
             /\ now' = now + 1
        ELSE /\ thr' = [thr EXCEPT ![t].pc = "done"]
             /\ now' = now
    /\ UNCHANGED <<file, jobs, running, last, appended, graph>>

\* save_digest_history: data = _load_all_data()
HistoryLoad(t) ==
    /\ thr[t].pc = "history_load"
    /\ thr' = [thr EXCEPT ![t].pc = "history_save", ![t].data = file]
    /\ UNCHANGED <<file, jobs, running, now, last, appended, graph>>

\* save_digest_history: the append and the cut on data, _save_all_data(data)
HistorySave(t) ==
    /\ thr[t].pc = "history_save"
    /\ \E io \in BOOLEAN :
        LET r == save_digest_history(thr[t].data, thr[t].user, thr[t].digest,
                                     thr[t].timestamp, io)
        IN  /\ file' = IF r.ok THEN r.file ELSE file
            /\ thr' = [thr EXCEPT ![t].pc = "done", ![t].saved = r.ok,
                                  ![t].data = <<>>]
            /\ appended' = IF r.ok
                           THEN [appended EXCEPT ![thr[t].user] =
                                     Append(@, [digest |-> thr[t].digest,
                                                timestamp |-> thr[t].timestamp])]
                           ELSE appended
    /\ UNCHANGED <<jobs, running, now, last, graph>>

\* the call returns and the thread is free again
Return(t) ==
    /\ thr[t].pc = "done"
    /\ thr' = [thr EXCEPT ![t] = IdleThread]
    /\ last' = [Call(thr[t].op, thr[t].user, 0) EXCEPT !.ret = thr[t].saved]
    /\ UNCHANGED <<file, jobs, running, now, appended, graph>>

NextRace ==
    \/ \E u \in UserIds : LoadPrefs("t1", "generate_digest", u)
    \/ \E u \in UserIds : LoadPrefs("t2", "generate_and_send_digest", u)
    \/ \E t \in Threads : GraphStep(t)
    \/ \E t \in Threads : HistoryLoad(t)
    \/ \E t \in Threads : HistorySave(t)
    \/ \E t \in Threads : Return(t)

SpecRace == InitStored /\ [][NextRace]_vars

----------------------------------------------------------------------------
(* main.py: build_graph and one graph.invoke(state).  The compiled graph   *)
(* runs in supersteps: the nodes triggered for a step all read the state   *)
(* as it is when the step begins, run concurrently, and their updates are  *)
(* merged by the reducers of SportDigestState when all of them have        *)
(* returned; the nodes their edges lead to make up the next step.          *)

START == "__start__"
END == "__end__"

TaskNodes == {"schedule_node", "scores_node", "player_node", "analysis_node"}
Nodes == TaskNodes \cup {"digest_node"}

\* a graph whose analysis node is fed by the schedule node instead of START
EdgesChained ==
    {<<START, "schedule_node">>, <<START, "scores_node">>,
     <<START, "player_node">>, <<"schedule_node", "analysis_node">>,
     <<"schedule_node", "digest_node">>, <<"scores_node", "digest_node">>,
     <<"player_node", "digest_node">>, <<"analysis_node", "digest_node">>,
     <<"digest_node", END>>}

\* the add_edge calls of build_graph
Edges ==
    {<<START, "schedule_node">>, <<START, "scores_node">>,
     <<START, "player_node">>, <<START, "analysis_node">>,
     <<"schedule_node", "digest_node">>, <<"scores_node", "digest_node">>,
     <<"player_node", "digest_node">>, <<"analysis_node", "digest_node">>,
     <<"digest_node", END>>}

\* a graph in which the digest node leads back to itself
Successors_loop(ns) ==
    {m \in Nodes : \E n \in ns : <<n, m>> \in Edges}
        \cup (IF "digest_node" \in ns THEN {"digest_node"} ELSE {})

\* the nodes that the edges out of a set of nodes lead to
Successors(ns) == {m \in Nodes : \E n \in ns : <<n, m>> \in Edges}

\* task nodes of which two return the same slot
Slot_shared(n) ==
    CASE n = "schedule_node" -> "schedule"
      [] n = "scores_node" -> "schedule"
      [] n = "player_node" -> "player_news"
      [] n = "analysis_node" -> "analysis"

\* the output slot a task node returns, and the name it tags tool calls with
Slot(n) ==
    CASE n = "schedule_node" -> "schedule"
      [] n = "scores_node" -> "scores"
      [] n = "player_node" -> "player_news"
      [] n = "analysis_node" -> "analysis"

AgentName(n) ==
    CASE n = "schedule_node" -> "schedule"
      [] n = "scores_node" -> "scores"
      [] n = "player_node" -> "player"
      [] n = "analysis_node" -> "analysis"

\* the keys of SportDigestState that hold a node's output
SlotNames == {"schedule", "scores", "player_news", "analysis", "final_digest"}

\* the output slots a node takes from the state it is handed:
\* analysis_agent asks for schedule and scores, digest_agent for all four
ReadSlots(n) ==
    CASE n = "analysis_node" -> {"schedule", "scores"}
      [] n = "digest_node" -> {"schedule", "scores", "player_news", "analysis"}
      [] OTHER -> {}

\* what the provider may answer, and the tool requests it may make
Texts == {"x", "y"}
ToolRequests == {<<>>, <<"tool">>}

\* the order in which the updates of one step are merged
NodeOrder ==
    <<"analysis_node", "digest_node", "player_node", "schedule_node",
      "scores_node">>

\* the state handed to graph.invoke: messages and tool_calls empty, no slot set
InitialState ==
    [messages |-> <<>>, tool_calls |-> <<>>, schedule |-> None,
     scores |-> None, player_news |-> None, analysis |-> None,
     final_digest |-> None]

NoWrite == [written |-> FALSE]

\* state.get(key, ""): the default only when the key is not set
GetOr(st, key, default) == IF st[key] = None THEN default ELSE st[key]

\* the dict a task node returns
TaskUpdate(n, out, requests) ==
    [written |-> TRUE, messages |-> <<out>>, slot |-> Slot(n), value |-> out,
     tool_calls |-> [i \in 1..Len(requests) |->
                        [agent |-> AgentName(n), tool |-> requests[i]]]]

\* the dict digest_agent returns: the digest is composed from the four slots
DigestUpdate(st) ==
    LET digest == <<GetOr(st, "schedule", ""), GetOr(st, "scores", ""),
                    GetOr(st, "player_news", ""), GetOr(st, "analysis", "")>>
    IN  [written |-> TRUE, messages |-> <<digest>>, slot |-> "final_digest",
         value |-> digest, tool_calls |-> <<>>]

\* a state whose messages key has no reducer: the value written replaces it
ApplyUpdate_overwrite(st, w) ==
    IF ~w.written THEN st
    ELSE [st EXCEPT !.messages = w.messages,
                    !.tool_calls = @ \o w.tool_calls,
                    ![w.slot] = w.value]

\* SportDigestState: operator.add on messages and tool_calls, the other
\* keys take the value written
ApplyUpdate(st, w) ==
    IF ~w.written THEN st
    ELSE [st EXCEPT !.messages = @ \o w.messages,
                    !.tool_calls = @ \o w.tool_calls,
                    ![w.slot] = w.value]

\* the updates of a step merged in node order
RECURSIVE MergeWrites(_, _, _)
MergeWrites(st, writes, i) ==
    IF i > Len(NodeOrder) THEN st
    ELSE MergeWrites(ApplyUpdate(st, writes[NodeOrder[i]]), writes, i + 1)

\* the updates of the nodes of a step merged in a given order of the nodes
RECURSIVE MergeInOrder(_, _, _)
MergeInOrder(st, writes, order) ==
    IF order = <<>> THEN st
    ELSE MergeInOrder(ApplyUpdate(st, writes[Head(order)]), writes, Tail(order))

\* for every slot, the nodes whose update set it, in the order of the merges
RECURSIVE RecordWrites(_, _, _)
RecordWrites(writers, writes, i) ==
    IF i > Len(NodeOrder) THEN writers
    ELSE LET n == NodeOrder[i]
             w == writes[n]
         IN  RecordWrites(IF w.written
                            THEN [writers EXCEPT ![w.slot] = Append(@, n)]
                            ELSE writers,
                          writes, i + 1)

\* what a node finds in the output slots it asks for: state.get(slot, "")
SlotsSeen(st, n) == {<<s, GetOr(st, s, "")>> : s \in ReadSlots(n)}

\* the calls a run has made so far: of the provider (llm.invoke and
\* agent.invoke in the nodes) and of tools (one per request a ToolNode
\* is handed; what a tool does inside belongs to its call)
NoCalls == [llm |-> 0, tool |-> 0]

\* a task node calls the provider once, and when the answer holds tool
\* requests it runs them and calls the provider once more
TaskCalls(calls, requests) ==
    [llm |-> calls.llm + (IF requests # <<>> THEN 2 ELSE 1),
     tool |-> calls.tool + Len(requests)]

\* graph.invoke(state): the first step holds the nodes START leads to
GraphInvoke(user_id) ==
    /\ graph.status = "idle"
    /\ load_preferences(file, user_id).present
    /\ graph' = [status |-> "running", user |-> user_id, step |-> 1,
                 active |-> Successors({START}), started |-> {},
                 finished |-> {}, writes |-> [n \in Nodes |-> NoWrite],
                 state |-> InitialState, ran |-> [n \in Nodes |-> 0],
                 writers |-> [s \in SlotNames |-> <<>>],
                 seen |-> [n \in Nodes |-> {}], calls |-> NoCalls]
    /\ UNCHANGED <<file, jobs, running, now, last, appended, thr>>

\* a node of the current step begins to run
NodeStart(n) ==
    /\ graph.status = "running"
    /\ n \in graph.active \ graph.started
    /\ graph' = [graph EXCEPT !.started = @ \cup {n},
                              !.seen[n] = SlotsSeen(graph.state, n)]
    /\ UNCHANGED <<file, jobs, running, now, last, appended, thr>>

\* a task node returns its update
TaskFinish(n) ==
    /\ graph.status = "running"
    /\ n \in TaskNodes
    /\ n \in graph.started \ graph.finished
    /\ \E out \in Texts, requests \in ToolRequests :
           graph' = [graph EXCEPT !.finished = @ \cup {n},
                                  !.writes[n] = TaskUpdate(n, out, requests),
                                  !.ran[n] = @ + 1,
                                  !.calls = TaskCalls(@, requests)]
    /\ UNCHANGED <<file, jobs, running, now, last, appended, thr>>

\* a task node raises: the run fails
TaskRaise(n) ==
    /\ graph.status = "running"
    /\ n \in TaskNodes
    /\ n \in graph.started \ graph.finished
    /\ graph' = [status |-> "failed", user |-> graph.user]
    /\ UNCHANGED <<file, jobs, running, now, last, appended, thr>>

\* a digest_agent that asks the provider to word the digest
DigestFinish_llm ==
    /\ graph.status = "running"
    /\ "digest_node" \in graph.started \ graph.finished
    /\ graph' = [graph EXCEPT !.finished = @ \cup {"digest_node"},
                              !.writes["digest_node"] = DigestUpdate(graph.state),
                              !.ran["digest_node"] = @ + 1,
                              !.calls.llm = @ + 1]
    /\ UNCHANGED <<file, jobs, running, now, last, appended, thr>>

\* digest_agent returns its update: it composes the text from the state
\* and calls neither the provider nor a tool
DigestFinish ==
    /\ graph.status = "running"
    /\ "digest_node" \in graph.started \ graph.finished
    /\ graph' = [graph EXCEPT !.finished = @ \cup {"digest_node"},
                              !.writes["digest_node"] = DigestUpdate(graph.state),
                              !.ran["digest_node"] = @ + 1]
    /\ UNCHANGED <<file, jobs, running, now, last, appended, thr>>

\* every node of the step has returned: merge, then schedule the next step
\* or end the run
StepCommit ==
    /\ graph.status = "running"
    /\ graph.finished = graph.active
    /\ LET merged == MergeWrites(graph.state, graph.writes, 1)
           next == Successors(graph.active)
       IN  graph' = [graph EXCEPT
                       !.state = merged,
                       !.writers = RecordWrites(@, graph.writes, 1),
                       !.status = IF next = {} THEN "done" ELSE "running",
                       !.step = @ + 1,
                       !.active = next, !.started = {}, !.finished = {},
                       !.writes = [n \in Nodes |-> NoWrite]]
    /\ UNCHANGED <<file, jobs, running, now, last, appended, thr>>

\* the caller has read final_digest and tool_calls; the state is dropped
GraphReturn ==
    /\ graph.status \in {"done", "failed"}
    /\ graph' = IdleGraph
    /\ last' = [Call("graph_invoke", graph.user, 0)
                  EXCEPT !.ret = (graph.status = "done")]
    /\ UNCHANGED <<file, jobs, running, now, appended, thr>>

SpecGraph ==
    InitStored /\
    [][
        \/ \E u \in UserIds : GraphInvoke(u)
        \/ \E n \in Nodes : NodeStart(n)
        \/ \E n \in TaskNodes : TaskFinish(n)
        \/ \E n \in TaskNodes : TaskRaise(n)
        \/ DigestFinish
        \/ StepCommit
        \/ GraphReturn
    ]_vars

----------------------------------------------------------------------------
(* One digest run from end to end: generate_digest or                      *)
(* generate_and_send_digest loads the preferences, runs the graph node by   *)
(* node and, when graph.invoke is over, handles what it gave                *)

\* a graph.invoke that hands back what it has when a node raised
RunOutcome_partial(g) ==
    IF g.status = "done"
    THEN [ok |-> TRUE, final_digest |-> GetOr(g.state, "final_digest", "")]
    ELSE [ok |-> TRUE, final_digest |-> ""]

\* what graph.invoke gives its caller: the final state, of which the caller
\* takes final_digest, or the exception of the node that raised
RunOutcome(g) ==
    IF g.status = "done"
    THEN [ok |-> TRUE, final_digest |-> GetOr(g.state, "final_digest", "")]
    ELSE [ok |-> FALSE, final_digest |-> ""]

\* the head of generate_digest / generate_and_send_digest up to graph.invoke
RunBegin(op, user_id) ==
    /\ running
    /\ thr["t1"].pc = "idle"
    /\ graph.status = "idle"
    /\ now < MaxRuns
    /\ op = "generate_and_send_digest" => HasJob(jobs, user_id)
    /\ load_preferences(file, user_id).present
    /\ thr' = [thr EXCEPT !["t1"] = [IdleThread EXCEPT !.op = op,
                                                       !.user = user_id,
                                                       !.pc = "graph"]]
    /\ graph' = [status |-> "running", user |-> user_id, step |-> 1,
                 active |-> Successors({START}), started |-> {},
                 finished |-> {}, writes |-> [n \in Nodes |-> NoWrite],
                 state |-> InitialState, ran |-> [n \in Nodes |-> 0],
                 writers |-> [s \in SlotNames |-> <<>>],
                 seen |-> [n \in Nodes |-> {}], calls |-> NoCalls]
    /\ UNCHANGED <<file, jobs, running, now, last, appended>>

\* graph.invoke is over: generate_digest lets the exception of a failed run
\* out (500) and else saves and returns the digest; generate_and_send_digest
\* does what its try/except does
RunEnd ==
    /\ thr["t1"].pc = "graph"
    /\ graph.status \in {"done", "failed"}
    /\ \E io \in BOOLEAN :
        LET op == thr["t1"].op
            user_id == thr["t1"].user
            out == RunOutcome(graph)
            e == [digest |-> out.final_digest, timestamp |-> now]
        IN  IF op = "generate_digest"
            THEN IF ~out.ok
                 THEN /\ last' = Call("generate_digest", user_id, 500)
                      /\ UNCHANGED <<file, now, appended>>
                 ELSE LET r == save_digest_history(file, user_id,
                                   out.final_digest, now, io)
                      IN  /\ file' = r.file
                          /\ now' = now + 1
                          /\ appended' = IF r.ok
                                         THEN [appended EXCEPT ![user_id] =
                                                   Append(@, e)]
                                         ELSE appended
                          /\ last' = [Call("generate_digest", user_id, 200)
                                        EXCEPT !.digest = out.final_digest,
                                               !.generated_at = now,
                                               !.ret = r.ok]
            ELSE LET r == generate_and_send_digest(file, user_id, TRUE, out,
                                                   now, io)
                 IN  /\ file' = r.file
                     /\ now' = IF out.ok THEN now + 1 ELSE now
                     /\ appended' = IF r.saved
                                    THEN [appended EXCEPT ![user_id] =
                                              Append(@, e)]
                                    ELSE appended
                     /\ last' = [Call("generate_and_send_digest", user_id,
                                      r.step)
                                   EXCEPT !.ret = r.saved,
                                          !.propagated = r.propagated]
    /\ thr' = [thr EXCEPT !["t1"] = IdleThread]
    /\ graph' = IdleGraph
    /\ UNCHANGED <<jobs, running>>

SpecRun ==
    InitStored /\
    [][
        \/ \E u \in UserIds : RunBegin("generate_digest", u)
        \/ \E u \in UserIds : RunBegin("generate_and_send_digest", u)
        \/ \E n \in Nodes : NodeStart(n)
        \/ \E n \in TaskNodes : TaskFinish(n)
        \/ \E n \in TaskNodes : TaskRaise(n)
        \/ DigestFinish
        \/ StepCommit
        \/ RunEnd
    ]_vars

----------------------------------------------------------------------------
(* stop_scheduler while digests are running: scheduler.shutdown(wait) puts  *)
(* the scheduler in its stopped state, after which the timer thread starts  *)
(* no job, and with wait set it returns when the executor has no job left   *)

StopNoWait == FALSE

\* the wait argument of scheduler.shutdown in stop_scheduler
StopWait == TRUE

\* a thread is inside generate_and_send_digest
FireInFlight(th, t) ==
    th[t].op = "generate_and_send_digest" /\ th[t].pc # "idle"

\* stop_scheduler is called: the scheduler stops
StopSchedulerCall ==
    /\ running
    /\ thr[MainThread].pc = "idle"
    /\ running' = FALSE
    /\ thr' = [thr EXCEPT ![MainThread].pc = "stopping",
                          ![MainThread].op = "stop_scheduler"]
    /\ last' = Call("stop_scheduler", None, 0)
    /\ UNCHANGED <<file, jobs, now, appended, graph>>

\* stop_scheduler returns
StopSchedulerReturn ==
    LET \* scheduler.shutdown(wait) may return
        shutdown_returns(th, wait) ==
            wait => \A t \in Threads : ~FireInFlight(th, t)
    IN  /\ thr[MainThread].pc = "stopping"
        /\ shutdown_returns(thr, StopWait)
        /\ thr' = [thr EXCEPT ![MainThread].pc = "stopped"]
        /\ UNCHANGED <<file, jobs, running, now, last, appended, graph>>

SpecStop ==
    InitStored /\
    [][
        \/ NextRace
        \/ StopSchedulerCall
        \/ StopSchedulerReturn
    ]_vars

----------------------------------------------------------------------------
(* main.py: _compact(text, limit), on strings as sequences of characters   *)

Whitespace == {" ", "\t"}

\* the characters of rstrip(",.;- ")
StripChars == {",", ".", ";", "-", " "}

\* text.split(): the runs of characters that are not whitespace
RECURSIVE SplitScan(_, _, _, _)
SplitScan(s, i, cur, acc) ==
    IF i > Len(s)
    THEN IF cur = <<>> THEN acc ELSE Append(acc, cur)
    ELSE IF s[i] \in Whitespace
         THEN SplitScan(s, i + 1, <<>>,
                        IF cur = <<>> THEN acc ELSE Append(acc, cur))
         ELSE SplitScan(s, i + 1, Append(cur, s[i]), acc)

\* sep.join(words)
RECURSIVE Join(_, _)
Join(sep, words) ==
    IF words = <<>> THEN <<>>
    ELSE IF Len(words) = 1 THEN words[1]
         ELSE words[1] \o sep \o Join(sep, Tail(words))

\* s[:n] for n >= 0
Prefix(s, n) == SubSeq(s, 1, IF n < Len(s) THEN n ELSE Len(s))

\* s.rfind(c): the last index of c counted from 0, or -1
RFind(s, c) ==
    LET at == {i \in DOMAIN s : s[i] = c}
    IN  IF at = {} THEN -1
        ELSE (CHOOSE i \in at : \A j \in at : j <= i) - 1

\* s.rstrip(chars)
RECURSIVE RStrip(_, _)
RStrip(s, chars) ==
    IF s # <<>> /\ s[Len(s)] \in chars
    THEN RStrip(SubSeq(s, 1, Len(s) - 1), chars)
    ELSE s

\* a _compact that cuts one character too late
_compact_late(text, limit) ==
    IF text = <<>> THEN <<>>
    ELSE LET cleaned == Join(<<" ">>, SplitScan(text, 1, <<>>, <<>>))
             truncated == Prefix(cleaned, limit + 1)
             last_space == RFind(truncated, " ")
         IN  IF Len(cleaned) <= limit THEN cleaned
             ELSE RStrip(IF last_space > 0
                         THEN Prefix(truncated, last_space)
                         ELSE truncated,
                         StripChars)

_compact(text, limit) ==
    IF text = <<>> THEN <<>>
    ELSE LET cleaned == Join(<<" ">>, SplitScan(text, 1, <<>>, <<>>))
             truncated == Prefix(cleaned, limit)
             last_space == RFind(truncated, " ")
         IN  IF Len(cleaned) <= limit THEN cleaned
             ELSE RStrip(IF last_space > 0
                         THEN Prefix(truncated, last_space)
                         ELSE truncated,
                         StripChars)

\* a text and a limit for _compact
InitText ==
    LET \* the characters of the texts: a letter, a comma, a space and a tab
        Chars == {"a", ",", " ", "\t"}
        \* the texts of at most n characters
        Strings(n) == UNION {[1..k -> Chars] : k \in 0..n}
    IN  /\ file = [u \in UserIds |-> NoRecord]
        /\ jobs = EmptyBag
        /\ running = FALSE
        /\ now = 0
        /\ last \in {[op |-> "text", text |-> s, limit |-> k] :
                        s \in Strings(MaxTextLen), k \in 0..MaxLimit}
        /\ appended = [u \in UserIds |-> <<>>]
        /\ thr = [t \in Threads \cup {MainThread} |-> IdleThread]
        /\ graph = IdleGraph

\* _compact(text, limit)
Compact ==
    /\ last.op = "text"
    /\ last' = [op |-> "_compact", text |-> last.text, limit |-> last.limit,
                result |-> _compact(last.text, last.limit)]
    /\ UNCHANGED <<file, jobs, running, now, appended, thr, graph>>

\* _compact applied to what _compact returned
CompactAgain ==
    /\ last.op = "_compact"
    /\ last' = [op |-> "_compact_again", text |-> last.text,
                limit |-> last.limit, first |-> last.result,
                result |-> _compact(last.result, last.limit)]
    /\ UNCHANGED <<file, jobs, running, now, appended, thr, graph>>

SpecText ==
    InitText /\
    [][
        \/ Compact
        \/ CompactAgain
    ]_vars

----------------------------------------------------------------------------
(* main.py: _classify_sport(teams, leagues), on names as sequences of      *)
(* characters.  The three keywords of football_keywords that hold an        *)
(* accented letter are left out: no name of the model holds one, so they    *)
(* match none of them.                                                      *)

UpperCase ==
    <<"A", "B", "C", "D", "E", "F", "G", "H", "I", "J", "K", "L", "M", "N",
     "O", "P", "Q", "R", "S", "T", "U", "V", "W", "X", "Y", "Z">>

Lower(s) ==
    LET LowerCase ==
            <<"a", "b", "c", "d", "e", "f", "g", "h", "i", "j", "k", "l", "m", "n",
             "o", "p", "q", "r", "s", "t", "u", "v", "w", "x", "y", "z">>
        \* c.lower() for one character, s.lower() for a text
        LowerChar(c) ==
            IF \E i \in DOMAIN UpperCase : UpperCase[i] = c
            THEN LowerCase[CHOOSE i \in DOMAIN UpperCase : UpperCase[i] = c]
            ELSE c
    IN  [i \in DOMAIN s |-> LowerChar(s[i])]

\* kw in s
Contains(kw, s) ==
    \E i \in 0..(Len(s) - Len(kw)) : SubSeq(s, i + 1, i + Len(kw)) = kw

football_keywords ==
    <<<<"F", "C">>,
     <<"U", "n", "i", "t", "e", "d">>,
     <<"C", "i", "t", "y">>,
     <<"R", "e", "a", "l">>,
     <<"B", "a", "r", "c", "e", "l", "o", "n", "a">>,
     <<"P", "r", "e", "m", "i", "e", "r", " ", "L", "e", "a", "g", "u", "e">>,
     <<"L", "a", " ", "L", "i", "g", "a">>,
     <<"S", "e", "r", "i", "e", " ", "A">>,
     <<"B", "u", "n", "d", "e", "s", "l", "i", "g", "a">>,
     <<"C", "h", "a", "m", "p", "i", "o", "n", "s", " ", "L", "e", "a", "g", "u", "e">>,
     <<"B", "r", "a", "s", "i", "l", "e", "i", "r", "a", "o">>,
     <<"P", "a", "l", "m", "e", "i", "r", "a", "s">>,
     <<"F", "l", "a", "m", "e", "n", "g", "o">>,
     <<"C", "o", "r", "i", "n", "t", "h", "i", "a", "n", "s">>,
     <<"S", "a", "o", " ", "P", "a", "u", "l", "o">>,
     <<"S", "a", "n", "t", "o", "s">>,
     <<"A", "t", "h", "l", "e", "t", "i", "c", "o">>,
     <<"I", "n", "t", "e", "r", "n", "a", "c", "i", "o", "n", "a", "l">>>>

tennis_keywords ==
    <<<<"A", "T", "P">>,
     <<"W", "T", "A">>,
     <<"G", "r", "a", "n", "d", " ", "S", "l", "a", "m">>,
     <<"W", "i", "m", "b", "l", "e", "d", "o", "n">>,
     <<"U", "S", " ", "O", "p", "e", "n">>,
     <<"F", "r", "e", "n", "c", "h", " ", "O", "p", "e", "n">>,
     <<"A", "u", "s", "t", "r", "a", "l", "i", "a", "n", " ", "O", "p", "e", "n">>,
     <<"R", "o", "l", "a", "n", "d", " ", "G", "a", "r", "r", "o", "s">>,
     <<"T", "e", "n", "n", "i", "s">>>>

f1_keywords ==
    <<<<"F", "o", "r", "m", "u", "l", "a">>,
     <<"F", "1">>,
     <<"G", "r", "a", "n", "d", " ", "P", "r", "i", "x">>,
     <<"F", "e", "r", "r", "a", "r", "i">>,
     <<"M", "e", "r", "c", "e", "d", "e", "s">>,
     <<"R", "e", "d", " ", "B", "u", "l", "l", " ", "R", "a", "c", "i", "n", "g">>,
     <<"M", "c", "L", "a", "r", "e", "n">>,
     <<"V", "e", "r", "s", "t", "a", "p", "p", "e", "n">>,
     <<"H", "a", "m", "i", "l", "t", "o", "n">>,
     <<"L", "e", "c", "l", "e", "r", "c">>>>

\* any(kw.lower() in item.lower() for kw in keywords)
AnyKeyword(keywords, item) ==
    \E k \in DOMAIN keywords : Contains(Lower(keywords[k]), Lower(item))

\* a _classify_sport that tests the three keyword lists one by one, not
\* in an if/elif chain
_classify_sport_ifs(teams, leagues) ==
    LET all_items == teams \o leagues
        IsF1(item) == AnyKeyword(f1_keywords, item)
        IsTennis(item) == AnyKeyword(tennis_keywords, item)
        IsFootball(item) ==
            \/ AnyKeyword(football_keywords, item)
            \/ ~(IsF1(item) \/ IsTennis(item))
    IN  [football |-> SelectSeq(all_items, IsFootball),
         tennis |-> SelectSeq(all_items, IsTennis),
         f1 |-> SelectSeq(all_items, IsF1)]

\* the loop over all_items: the item goes to the first of f1, tennis,
\* football whose keywords it holds, and to football when it holds none
RECURSIVE ClassifyItems(_, _)
ClassifyItems(items, sports) ==
    IF items = <<>> THEN sports
    ELSE LET item == Head(items)
             bucket == IF AnyKeyword(f1_keywords, item) THEN "f1"
                       ELSE IF AnyKeyword(tennis_keywords, item) THEN "tennis"
                       ELSE IF AnyKeyword(football_keywords, item)
                            THEN "football"
                            ELSE "football"
         IN  ClassifyItems(Tail(items),
                           [sports EXCEPT ![bucket] = Append(@, item)])

_classify_sport(teams, leagues) ==
    ClassifyItems(teams \o leagues,
                  [football |-> <<>>, tennis |-> <<>>, f1 |-> <<>>])

\* the names a user may track: "ATP F1", "wta", "Santos FC", "Lakers"
Names ==
    {<<"A", "T", "P", " ", "F", "1">>,
     <<"w", "t", "a">>,
     <<"S", "a", "n", "t", "o", "s", " ", "F", "C">>,
     <<"L", "a", "k", "e", "r", "s">>}

\* the lists of at most n names
NameLists(n) == UNION {[1..k -> Names] : k \in 0..n}

\* a list of teams and a list of leagues
InitClassify ==
    /\ file = [u \in UserIds |-> NoRecord]
    /\ jobs = EmptyBag
    /\ running = FALSE
    /\ now = 0
    /\ last \in {[op |-> "items", teams |-> t, leagues |-> l] :
                    t \in NameLists(MaxItems), l \in NameLists(MaxItems)}
    /\ appended = [u \in UserIds |-> <<>>]
    /\ thr = [t \in Threads \cup {MainThread} |-> IdleThread]
    /\ graph = IdleGraph

\* _classify_sport(teams, leagues)
Classify ==
    /\ last.op = "items"
    /\ last' = [op |-> "_classify_sport", teams |-> last.teams,
                leagues |-> last.leagues,
                sports |-> _classify_sport(last.teams, last.leagues)]
    /\ UNCHANGED <<file, jobs, running, now, appended, thr, graph>>

SpecClassify == InitClassify /\ [][Classify]_vars

----------------------------------------------------------------------------
(* main.py: the tools and their sources.  A tool asks its sources one      *)
(* after the other and returns at the first that yields something; what a   *)
(* source answers is an input.  One answer per source stands for all the    *)
(* requests a tool makes to it in one call (one per team or league).        *)

CompactLimit == 200  \* main.py: def _compact(text, limit=200)

\* _get_league_id: the id of a league name, 0 for the None of an unknown
\* name (the caller only tests its truth); the accented key is left out
league_map ==
    {<<<<"p", "r", "e", "m", "i", "e", "r", " ", "l", "e", "a", "g", "u", "e">>, 39>>,
     <<<<"l", "a", " ", "l", "i", "g", "a">>, 140>>,
     <<<<"s", "e", "r", "i", "e", " ", "a">>, 135>>,
     <<<<"b", "u", "n", "d", "e", "s", "l", "i", "g", "a">>, 78>>,
     <<<<"l", "i", "g", "u", "e", " ", "1">>, 61>>,
     <<<<"c", "h", "a", "m", "p", "i", "o", "n", "s", " ", "l", "e", "a", "g", "u", "e">>, 2>>,
     <<<<"b", "r", "a", "s", "i", "l", "e", "i", "r", "a", "o">>, 71>>,
     <<<<"c", "a", "m", "p", "e", "o", "n", "a", "t", "o", " ", "b", "r", "a", "s", "i", "l", "e", "i", "r", "o">>, 71>>}

_get_league_id(league_name) ==
    IF \E e \in league_map : e[1] = Lower(league_name)
    THEN (CHOOSE e \in league_map : e[1] = Lower(league_name))[2]
    ELSE 0

\* the texts a tool builds from a payload and from a search result
ApiText == <<"d">>

\* the sources a tool asks, in the order of its code
ToolChain(tool, args) ==
    LET teams == _classify_sport(args, <<>>)
        leagues == _classify_sport(<<>>, args)
        football(s) == IF s.football # <<>> THEN <<"api_football">> ELSE <<>>
        f1(s) == IF s.f1 # <<>> THEN <<"ergast">> ELSE <<>>
        with_id == \E i \in DOMAIN leagues.football :
                       _get_league_id(leagues.football[i]) # 0
    IN  CASE tool = "champions_league_summary"
               -> <<"web", "api_football", "llm">>
          [] tool = "brasileirao_summary"
               -> <<"api_football", "web", "llm">>
          [] tool \in {"upcoming_games", "recent_results"}
               -> football(teams) \o f1(teams) \o <<"web", "llm">>
          [] tool = "team_standings"
               -> (IF with_id THEN <<"api_football">> ELSE <<>>)
                      \o f1(leagues) \o <<"web", "llm">>
          [] tool = "player_news" -> <<"web", "llm">>
          [] tool = "live_scores" -> <<"llm">>

\* what asking a source comes to: nothing (the tool goes on), a value (the
\* tool returns it) or an exception that leaves the tool
Yields(src, answers) ==
    CASE src = "llm" -> IF answers.llm.ok THEN "value" ELSE "raise"
      [] src = "web" -> IF answers.web = "text" THEN "value" ELSE "none"
      [] OTHER -> IF answers[src] = "data" THEN "value"
                  ELSE IF answers[src] = "malformed" THEN "raise"
                  ELSE "none"

\* the string a tool returns when a source has yielded a value
ValueOf(src, answers) ==
    LET WebText == <<"w">>
    IN  CASE src = "llm" -> _compact(answers.llm.content, CompactLimit)
          [] src = "web" -> WebText
          [] OTHER -> ApiText

\* a tool that asks every source of its chain before it returns
RunChain_eager(chain, answers) ==
    LET first == CHOOSE i \in DOMAIN chain :
                     /\ Yields(chain[i], answers) # "none"
                     /\ \A j \in 1..(i - 1) : Yields(chain[j], answers) = "none"
        src == chain[first]
        raised == Yields(src, answers) = "raise"
    IN  [raised |-> raised, source |-> src, consulted |-> chain,
         value |-> IF raised THEN <<>> ELSE ValueOf(src, answers)]

\* a call of a tool: the sources are asked in turn up to the first that
\* does not yield nothing; the last one, llm, yields a value or raises
RunChain(chain, answers) ==
    LET first == CHOOSE i \in DOMAIN chain :
                     /\ Yields(chain[i], answers) # "none"
                     /\ \A j \in 1..(i - 1) : Yields(chain[j], answers) = "none"
        src == chain[first]
        raised == Yields(src, answers) = "raise"
    IN  [raised |-> raised, source |-> src,
         consulted |-> SubSeq(chain, 1, first),
         value |-> IF raised THEN <<>> ELSE ValueOf(src, answers)]

\* the calls a dispatcher can make and what the sources answer to each
InitTools ==
    LET \* the league "Serie A"
        SerieA == <<"S", "e", "r", "i", "e", " ", "A">>
        \* the lists of teams, leagues or players a tool is called with
        ToolArgs ==
            {<<n>> : n \in Names \cup {SerieA}}
                \cup {<<<<"S", "a", "n", "t", "o", "s", " ", "F", "C">>, <<"A", "T", "P", " ", "F", "1">>>>}
        Tools ==
            {"champions_league_summary", "brasileirao_summary", "upcoming_games",
             "recent_results", "team_standings", "player_news", "live_scores"}
        \* a call of a tool: the two summaries take no argument
        Invocations ==
            {[tool |-> t, args |-> <<>>] :
                t \in {"champions_league_summary", "brasileirao_summary"}}
            \cup {[tool |-> t, args |-> a] :
                    t \in Tools \ {"champions_league_summary", "brasileirao_summary"},
                    a \in ToolArgs}
        \* what the sources answer.  _fetch_api_football and _fetch_ergast_f1
        \* return None ("none"), a payload of the expected shape ("data") or a
        \* payload that lacks the keys the tool reads ("malformed"); _search_web
        \* returns None or a text; llm.invoke raises or returns a content
        LlmContents == {<<>>, <<" ">>, <<"a">>}
        Answers ==
            [api_football : {"none", "data", "malformed"},
             ergast : {"none", "data", "malformed"},
             web : {"none", "text"},
             llm : {[ok |-> FALSE, content |-> <<>>]}
                       \cup {[ok |-> TRUE, content |-> c] : c \in LlmContents}]
    IN  /\ file = [u \in UserIds |-> NoRecord]
        /\ jobs = EmptyBag
        /\ running = FALSE
        /\ now = 0
        /\ last \in {[op |-> "call", tool |-> inv.tool, args |-> inv.args,
                       answers |-> answers] :
                        inv \in Invocations, answers \in Answers}
        /\ appended = [u \in UserIds |-> <<>>]
        /\ thr = [t \in Threads \cup {MainThread} |-> IdleThread]
        /\ graph = IdleGraph

\* tool.invoke(args)
InvokeTool ==
    /\ last.op = "call"
    /\ last' = [op |-> "tool", tool |-> last.tool, args |-> last.args,
                answers |-> last.answers,
                chain |-> ToolChain(last.tool, last.args),
                result |-> RunChain(ToolChain(last.tool, last.args),
                                    last.answers)]
    /\ UNCHANGED <<file, jobs, running, now, appended, thr, graph>>

SpecTools == InitTools /\ [][InvokeTool]_vars

----------------------------------------------------------------------------
(* storage.get_digest_history called between the saves of one user          *)

\* get_digest_history(user_id, limit)
GetDigestHistory(user_id, limit) ==
    /\ last' = [op |-> "get_digest_history", user |-> user_id,
                limit |-> limit,
                result |-> get_digest_history(file, user_id, limit)]
    /\ UNCHANGED <<file, jobs, running, now, appended, thr, graph>>

SpecHistoryRead ==
    InitStored /\
    [][
        \/ SaveDigestHistory("u1", "d1")
        \/ \E u \in UserIds, limit \in 0..MaxLimit : GetDigestHistory(u, limit)
    ]_vars

----------------------------------------------------------------------------
(* Two request threads in configure_interests, update_preferences and       *)
(* delete_user_preferences: each storage call and each scheduler call is    *)
(* one step (the handlers are plain def functions, run in the thread pool,  *)
(* and hold no lock from one call to the next).  The requests are valid     *)
(* and no file access fails.                                                *)

ValidRequests == {<<T0700, "America/Sao_Paulo">>, <<T1830, "UTC">>}

\* configure_interests up to save_preferences
ConcConfigureSave(t, user_id, req) ==
    /\ thr[t].pc = "idle"
    /\ file' = save_preferences(file, user_id,
                                PrefsDict(user_id, req[1], req[2]), TRUE).file
    /\ thr' = [thr EXCEPT ![t] = [IdleThread EXCEPT
                                    !.pc = "schedule",
                                    !.op = "configure_interests",
                                    !.user = user_id, !.data = req]]
    /\ UNCHANGED <<jobs, running, now, last, appended, graph>>

\* update_preferences: load_preferences, 404 for an unknown user
ConcUpdateLoad(t, user_id, req) ==
    /\ thr[t].pc = "idle"
    /\ IF load_preferences(file, user_id).present
       THEN /\ thr' = [thr EXCEPT ![t] = [IdleThread EXCEPT
                                            !.pc = "save",
                                            !.op = "update_preferences",
                                            !.user = user_id, !.data = req]]
            /\ UNCHANGED last
       ELSE /\ last' = Call("update_preferences", user_id, 404)
            /\ UNCHANGED thr
    /\ UNCHANGED <<file, jobs, running, now, appended, graph>>

\* update_preferences: save_preferences
ConcUpdateSave(t) ==
    /\ thr[t].pc = "save"
    /\ file' = save_preferences(file, thr[t].user,
                                PrefsDict(thr[t].user, thr[t].data[1],
                                          thr[t].data[2]), TRUE).file
    /\ thr' = [thr EXCEPT ![t].pc = "schedule"]
    /\ UNCHANGED <<jobs, running, now, last, appended, graph>>

\* the end of configure_interests and update_preferences:
\* schedule_daily_digest, then the response
ConcSchedule(t) ==
    /\ thr[t].pc = "schedule"
    /\ jobs' = schedule_daily_digest(jobs, thr[t].user, thr[t].data[1],
                                     thr[t].data[2])
    /\ last' = Call(thr[t].op, thr[t].user, 200)
    /\ thr' = [thr EXCEPT ![t] = IdleThread]
    /\ UNCHANGED <<file, running, now, appended, graph>>

\* delete_user_preferences: delete_preferences, 404 when it returns False
ConcDelete(t, user_id) ==
    /\ thr[t].pc = "idle"
    /\ LET r == delete_preferences(file, user_id, TRUE)
       IN  /\ file' = r.file
           /\ IF r.ok
              THEN /\ thr' = [thr EXCEPT ![t] = [IdleThread EXCEPT
                                    !.pc = "unschedule",
                                    !.op = "delete_user_preferences",
                                    !.user = user_id]]
                   /\ UNCHANGED last
              ELSE /\ last' = Call("delete_user_preferences", user_id, 404)
                   /\ UNCHANGED thr
    /\ UNCHANGED <<jobs, running, now, appended, graph>>

\* the end of delete_user_preferences: unschedule_digest, then the response
ConcUnschedule(t) ==
    /\ thr[t].pc = "unschedule"
    /\ jobs' = unschedule_digest(jobs, thr[t].user).jobs
    /\ last' = Call("delete_user_preferences", thr[t].user, 200)
    /\ thr' = [thr EXCEPT ![t] = IdleThread]
    /\ UNCHANGED <<file, running, now, appended, graph>>

SpecConc ==
    InitStored /\
    [][
        \/ \E t \in Threads, u \in UserIds, req \in ValidRequests :
               ConcConfigureSave(t, u, req)
        \/ \E t \in Threads, u \in UserIds, req \in ValidRequests :
               ConcUpdateLoad(t, u, req)
        \/ \E t \in Threads : ConcUpdateSave(t)
        \/ \E t \in Threads : ConcSchedule(t)
        \/ \E t \in Threads, u \in UserIds : ConcDelete(t, u)
        \/ \E t \in Threads : ConcUnschedule(t)
    ]_vars

----------------------------------------------------------------------------
(* Runs of the graph side by side: generate_digest in the request threads   *)
(* and generate_and_send_digest in the timer threads each build a graph     *)
(* and a state of their own.  A run is taken in three steps (the state is   *)
(* built, the step of the task nodes, the step of the digest node); every   *)
(* entry a node emits carries the number of its run.                        *)

MaxStarted == 3  \* runs started in a behaviour

\* a graph.invoke that is handed a state object kept from one call to the
\* next
RunState_kept(left) == left

\* the state a run starts from: the dict built in the call (main.py
\* 1242-1246, scheduler.py 94-98) on a graph compiled without checkpointer,
\* whatever the run that wrote last has left
RunState(left) == InitialState

\* the text the task nodes of run id emit
RunText(id) == ToString(id)

\* no run has written yet
InitRuns ==
    /\ file = [u \in UserIds |-> PrefsDict(u, T0700, "America/Sao_Paulo")]
    /\ jobs = RestoreAll(EmptyBag, file, UserIds)
    /\ running = TRUE
    /\ now = 0
    /\ last = Call("none", None, 0)
    /\ appended = [u \in UserIds |-> <<>>]
    /\ thr = [t \in Threads \cup {MainThread} |-> IdleThread]
    /\ graph = [status |-> "idle", left |-> InitialState]

\* the head of generate_digest / generate_and_send_digest: the preferences
\* are loaded, the graph and the state are built
RunsBegin(t, op, user_id) ==
    /\ running
    /\ thr[t].pc = "idle"
    /\ now < MaxStarted
    /\ op = "generate_and_send_digest" => HasJob(jobs, user_id)
    /\ load_preferences(file, user_id).present
    /\ thr' = [thr EXCEPT ![t] =
                 [IdleThread EXCEPT
                    !.pc = "tasks", !.op = op, !.user = user_id,
                    !.data = [id |-> now, state |-> RunState(graph.left)]]]
    /\ now' = now + 1
    /\ UNCHANGED <<file, jobs, running, last, appended, graph>>

\* the first step of the run of thread t: the four task nodes
RunsTasks(t) ==
    LET \* the updates of the step of the task nodes of run id
        TaskWrites(id, requests) ==
            [n \in Nodes |->
                IF n \in TaskNodes
                THEN TaskUpdate(n, RunText(id),
                                [i \in DOMAIN requests |->
                                    [run |-> id, name |-> requests[i]]])
                ELSE NoWrite]
    IN  /\ thr[t].pc = "tasks"
        /\ \E requests \in ToolRequests :
            LET writes == TaskWrites(thr[t].data.id, requests)
                merged == MergeWrites(thr[t].data.state, writes, 1)
            IN  /\ thr' = [thr EXCEPT ![t].pc = "digest",
                                       ![t].data.state = merged]
                /\ graph' = [graph EXCEPT !.left = merged]
        /\ UNCHANGED <<file, jobs, running, now, last, appended>>

\* the second step of the run of thread t: the digest node
RunsDigest(t) ==
    /\ thr[t].pc = "digest"
    /\ LET w == DigestUpdate(thr[t].data.state)
           merged == ApplyUpdate(thr[t].data.state, w)
       IN  /\ thr' = [thr EXCEPT ![t].pc = "done",
                                  ![t].data.state = merged]
           /\ graph' = [graph EXCEPT !.left = merged]
    /\ UNCHANGED <<file, jobs, running, now, last, appended>>

\* graph.invoke has returned and the caller has read the final state
RunsEnd(t) ==
    /\ thr[t].pc = "done"
    /\ last' = [Call(thr[t].op, thr[t].user, 200) EXCEPT !.ret = TRUE]
    /\ thr' = [thr EXCEPT ![t] = IdleThread]
    /\ UNCHANGED <<file, jobs, running, now, appended, graph>>

SpecRuns ==
    InitRuns /\
    [][
        \/ \E t \in Threads, u \in UserIds : RunsBegin(t, "generate_digest", u)
        \/ \E t \in Threads, u \in UserIds :
               RunsBegin(t, "generate_and_send_digest", u)
        \/ \E t \in Threads : RunsTasks(t)
        \/ \E t \in Threads : RunsDigest(t)
        \/ \E t \in Threads : RunsEnd(t)
    ]_vars

----------------------------------------------------------------------------
(* Two threads in the storage module: save_preferences, delete_preferences  *)
(* and save_digest_history each read the whole file under _file_lock,       *)
(* change the data they have read and write the whole file under            *)
(* _file_lock again; the lock is free between the read and the write.  No   *)
(* file access fails.                                                       *)

StorageOps == {"save_preferences", "delete_preferences", "save_digest_history"}

\* the preferences that save_preferences is called with
NewPrefs(user_id) == PrefsDict(user_id, T1830, "UTC")

\* data = _load_all_data()
StoreLoad(t, op, user_id) ==
    /\ thr[t].pc = "idle"
    /\ now < MaxClock
    /\ thr' = [thr EXCEPT ![t] = [IdleThread EXCEPT
                                    !.pc = "store_save", !.op = op,
                                    !.user = user_id, !.data = file,
                                    !.timestamp = now]]
    /\ now' = now + 1
    /\ UNCHANGED <<file, jobs, running, last, appended, graph>>

\* the change on data and _save_all_data(data), or the return of False
\* without a write
StoreSave(t) ==
    LET \* what a storage operation makes of the data it has read
        StorageResult(op, data, user_id, timestamp) ==
            CASE op = "save_preferences"
                   -> save_preferences(data, user_id, NewPrefs(user_id), TRUE)
              [] op = "delete_preferences"
                   -> delete_preferences(data, user_id, TRUE)
              [] op = "save_digest_history"
                   -> save_digest_history(data, user_id, "d1", timestamp, TRUE)
    IN  /\ thr[t].pc = "store_save"
        /\ LET r == StorageResult(thr[t].op, thr[t].data, thr[t].user,
                                  thr[t].timestamp)
           IN  /\ file' = IF r.ok THEN r.file ELSE file
               /\ last' = [Call(thr[t].op, thr[t].user, 0) EXCEPT !.ret = r.ok]
        /\ thr' = [thr EXCEPT ![t] = IdleThread]
        /\ UNCHANGED <<jobs, running, now, appended, graph>>

SpecStore ==
    InitStored /\
    [][
        \/ \E t \in Threads, op \in StorageOps, u \in UserIds : StoreLoad(t, op, u)
        \/ \E t \in Threads : StoreSave(t)
    ]_vars

----------------------------------------------------------------------------
(* The storage module called one operation at a time, each call whole; a    *)
(* file access may raise (io = FALSE), which every operation catches and    *)
(* reports as False                                                         *)

\* what a call of a storage operation returns and leaves in the file
StorageCallResult(op, f, user_id, timestamp, io) ==
    CASE op = "save_preferences"
           -> save_preferences(f, user_id, NewPrefs(user_id), io)
      [] op = "delete_preferences"
           -> delete_preferences(f, user_id, io)
      [] op = "save_digest_history"
           -> save_digest_history(f, user_id, "d1", timestamp, io)

\* one call of save_preferences, delete_preferences or save_digest_history
StorageCall(op, user_id, io) ==
    /\ LET r == StorageCallResult(op, file, user_id, now, io)
           wrote == op = "save_digest_history" /\ r.ok
       IN  /\ wrote => now < MaxClock
           /\ file' = r.file
           /\ now' = IF wrote THEN now + 1 ELSE now
           /\ last' = [Call(op, user_id, 0) EXCEPT !.ret = r.ok]
    /\ UNCHANGED <<jobs, running, appended, thr, graph>>

SpecStorage ==
    Init /\
    [][
        \E op \in StorageOps, u \in UserIds, io \in BOOLEAN : StorageCall(op, u, io)
    ]_vars

----------------------------------------------------------------------------
(* main.py: one task node (schedule_agent, scores_agent, player_agent,      *)
(* analysis_agent share the code below) as a function of what the provider  *)
(* answers to its first and to its second call                              *)

MaxRequests == 2  \* tool requests in one answer of the provider

\* the rendered prompt of a node and the message a tool run gives back
Instruction(n) == "instruction"
ToolResult(request) == "tool result"

\* a task node that takes the text of the first answer in every case
task_agent_first(n, first, second) ==
    LET requests == first.tool_calls
    IN  [update |-> TaskUpdate(n, first.content, requests),
         calls |-> [llm |-> 1, tool |-> Len(requests)],
         dispatched |-> requests,
         prompt |-> <<Instruction(n)>>]

\* res = agent.invoke(messages); if res.tool_calls: the requests are
\* recorded, ToolNode runs them, final_res = llm.invoke(messages) and
\* out = final_res.content; else out = res.content.  prompt is the local
\* list messages, update the dict returned
task_agent(n, first, second) ==
    LET requests == first.tool_calls
        out == IF requests # <<>> THEN second ELSE first.content
    IN  [update |-> TaskUpdate(n, out, requests),
         calls |-> TaskCalls(NoCalls, requests),
         dispatched |-> requests,
         prompt |-> IF requests # <<>>
                    THEN <<Instruction(n), first.content>>
                             \o [i \in DOMAIN requests |->
                                    ToolResult(requests[i])]
                             \o <<"synthesis">>
                    ELSE <<Instruction(n)>>]

\* a node and the answers the provider will give it
InitAgent ==
    LET ToolNames == {"upcoming_games", "game_times"}
        \* the first answer of the provider: a text and the tools it requests
        FirstResponses ==
            [content : Texts,
             tool_calls : UNION {[1..k -> ToolNames] : k \in 0..MaxRequests}]
    IN  /\ file = [u \in UserIds |-> NoRecord]
        /\ jobs = EmptyBag
        /\ running = FALSE
        /\ now = 0
        /\ last \in {[op |-> "node", node |-> n, first |-> r1, second |-> r2] :
                        n \in TaskNodes, r1 \in FirstResponses, r2 \in Texts}
        /\ appended = [u \in UserIds |-> <<>>]
        /\ thr = [t \in Threads \cup {MainThread} |-> IdleThread]
        /\ graph = IdleGraph

\* the node function is called
RunAgent ==
    /\ last.op = "node"
    /\ last' = [op |-> "task_agent", node |-> last.node,
                first |-> last.first, second |-> last.second,
                result |-> task_agent(last.node, last.first, last.second)]
    /\ UNCHANGED <<file, jobs, running, now, appended, thr, graph>>

SpecAgent == InitAgent /\ [][RunAgent]_vars

----------------------------------------------------------------------------
(* main.py: digest_agent and the section builders, on texts that are       *)
(* sequences of characters.  A literal of the source that holds characters *)
(* outside ASCII (the titles with their rule, the labels) is one symbol,    *)
(* written "<...>".                                                         *)

DigestCut == 300  \* main.py: scores[:300], schedule[:300], player_news[:300]

\* s.strip()
RECURSIVE LStrip(_)
LStrip(s) ==
    IF s # <<>> /\ s[1] \in {" ", "\t", "\n"} THEN LStrip(Tail(s)) ELSE s

\* x in lst
InList(x, lst) == \E i \in DOMAIN lst : lst[i] = x

\* _extract_team_info: the first two sentences that hold the name
_extract_team_info(team_name, text) ==
    LET Strip(s) == RStrip(LStrip(s), {" ", "\t", "\n"})
        \* text.split(c): the pieces between the occurrences of c, empty ones too
        SplitOn(s, c) ==
            LET cuts == {0} \cup {i \in DOMAIN s : s[i] = c}
                after(a) == {i \in cuts \cup {Len(s) + 1} : i > a}
                end(a) == CHOOSE i \in after(a) : \A j \in after(a) : i <= j
                start(k) == CHOOSE a \in cuts :
                                Cardinality({b \in cuts : b < a}) = k - 1
            IN  [k \in 1..Cardinality(cuts) |->
                    SubSeq(s, start(k) + 1, end(start(k)) - 1)]
    IN  IF text = <<>> \/ team_name = <<>> THEN <<>>
        ELSE LET sentences == SplitOn(text, ".")
                 holds(s) == Contains(Lower(team_name), Lower(s))
                 found == SelectSeq(sentences, holds)
                 relevant == [i \in DOMAIN found |-> Strip(found[i])]
             IN  IF relevant = <<>> THEN <<>>
                 ELSE Join(<<".", " ">>, SubSeq(relevant, 1,
                               IF Len(relevant) < 2 THEN Len(relevant) ELSE 2))
                          \o <<".">>

\* the titles of the sections and the headings of the generic layout
FootballTitle == "<FUTEBOL>"
TennisTitle == "<TENIS>"
F1Title == "<FORMULA 1>"
GenericHeadings == <<"<RESULTADOS RECENTES>", "<PROXIMOS JOGOS>",
  "<NOTICIAS>">>

\* the loop over the teams of _build_football_section
RECURSIVE TeamBlocks(_, _, _)
TeamBlocks(teams, schedule, scores) ==
    IF teams = <<>> THEN <<>>
    ELSE LET team == Head(teams)
             team_schedule == _extract_team_info(team, schedule)
             team_scores == _extract_team_info(team, scores)
         IN  <<"#", "#", "#", " ">> \o team \o <<"\n">>
                 \o (IF team_scores # <<>>
                     THEN <<"<Resultados recentes: >">> \o team_scores
                              \o <<"\n">>
                     ELSE <<>>)
                 \o (IF team_schedule # <<>>
                     THEN <<"<Proximos jogos: >">> \o team_schedule
                              \o <<"\n">>
                     ELSE <<>>)
                 \o <<"\n">>
                 \o TeamBlocks(Tail(teams), schedule, scores)

_build_football_section(teams, leagues, schedule, scores, analysis) ==
    IF teams = <<>> /\ leagues = <<>> THEN <<>>
    ELSE LET cl_info == _extract_team_info(<<"C", "h", "a", "m", "p", "i",
      "o", "n", "s">>,
                            scores \o <<" ">> \o schedule \o <<" ">>
                                \o analysis)
             br_info == _extract_team_info(<<"B", "r", "a", "s", "i", "l",
               "e", "i", "r">>,
                            scores \o <<" ">> \o schedule)
         IN  <<FootballTitle>>
                 \o TeamBlocks(teams, schedule, scores)
                 \o (IF \E i \in DOMAIN leagues :
                            Contains(<<"C", "h", "a", "m", "p", "i", "o",
                              "n", "s">>, leagues[i])
                     THEN <<"<### UEFA Champions League>">>
                              \o (IF cl_info # <<>>
                                  THEN cl_info \o <<"\n">> ELSE <<>>)
                              \o <<"\n">>
                     ELSE <<>>)
                 \o (IF \E i \in DOMAIN leagues :
                            Contains(<<"B", "r", "a", "s", "i", "l", "e",
                              "i", "r">>, leagues[i])
                     THEN <<"<### Brasileirao>">>
                              \o (IF br_info # <<>>
                                  THEN br_info \o <<"\n">> ELSE <<>>)
                              \o <<"\n">>
                     ELSE <<>>)

\* the keywords of _is_tennis_player
tennis_player_keywords ==
    <<<<"f", "o", "n", "s", "e", "c", "a">>,
     <<"d", "j", "o", "k", "o", "v", "i", "c">>,
     <<"n", "a", "d", "a", "l">>,
     <<"f", "e", "d", "e", "r", "e", "r">>,
     <<"a", "l", "c", "a", "r", "a", "z">>,
     <<"s", "i", "n", "n", "e", "r">>>>

_is_tennis_player(player_name) ==
    \E k \in DOMAIN tennis_player_keywords :
        Contains(tennis_player_keywords[k], Lower(player_name))

\* the loop over the players of _build_tennis_section
RECURSIVE PlayerBlocks(_, _)
PlayerBlocks(players, player_news) ==
    IF players = <<>> THEN <<>>
    ELSE LET player == Head(players)
             player_info == _extract_team_info(player, player_news)
         IN  (IF _is_tennis_player(player)
                    \/ Contains(<<"t", "e", "n", "n", "i",
                      "s">>, Lower(player))
              THEN <<"#", "#", "#", " ">> \o player \o <<"\n">>
                       \o (IF player_info # <<>>
                           THEN player_info \o <<"\n">>
                           ELSE <<"<Informacoes nao disponiveis no momento.>">>)
                       \o <<"\n">>
              ELSE <<>>)
                 \o PlayerBlocks(Tail(players), player_news)

_build_tennis_section(players, player_news) ==
    IF players = <<>> THEN <<>>
    ELSE <<TennisTitle>> \o PlayerBlocks(players, player_news)

_build_f1_section(schedule, scores) ==
    IF ~(\/ Contains(<<"F", "1">>, schedule) \/ Contains(<<"F", "1">>, scores)
         \/ Contains(<<"F", "o", "r", "m", "u", "l",
           "a">>, schedule) \/ Contains(<<"F", "o", "r", "m", "u", "l",
           "a">>, scores))
    THEN <<>>
    ELSE LET or(a, b) == IF a # <<>> THEN a ELSE b
             f1_schedule == or(_extract_team_info(<<"F", "1">>, schedule),
                               _extract_team_info(<<"F", "o", "r", "m",
                                 "u", "l", "a">>, schedule))
             f1_scores == or(_extract_team_info(<<"F", "1">>, scores),
                             _extract_team_info(<<"F", "o", "r", "m", "u",
                               "l", "a">>, scores))
         IN  <<F1Title>>
                 \o (IF f1_scores # <<>>
                     THEN <<"<Ultima corrida:>">> \o f1_scores
                              \o <<"\n", "\n">>
                     ELSE <<>>)
                 \o (IF f1_schedule # <<>>
                     THEN <<"<Proxima corrida:>">> \o f1_schedule
                              \o <<"\n", "\n">>
                     ELSE <<>>)
                 \o (IF f1_scores = <<>> /\ f1_schedule = <<>>
                     THEN <<"<Informacoes de Formula 1 nao disponiveis.>">>
                     ELSE <<>>)

\* the sections digest_agent builds, in the order it appends them; the
\* accented league name of the list tested for football is left out
DigestSections(state) ==
    LET teams == state.teams
        players == state.players
        leagues == state.leagues
        schedule == state.schedule
        scores == state.scores
        player_news == state.player_news
        analysis == state.analysis
        sports == _classify_sport(teams, leagues)
        unclassified(t) == /\ ~InList(t, sports.football)
                           /\ ~InList(t, sports.tennis)
                           /\ ~InList(t, sports.f1)
        football_section ==
            IF \/ sports.football # <<>>
               \/ \E i \in DOMAIN leagues :
                      leagues[i] \in {<<"C", "h", "a", "m", "p", "i", "o",
                        "n", "s", " ", "L", "e", "a", "g", "u", "e">>,
                                      <<"P", "r", "e", "m", "i", "e", "r",
                                        " ", "L", "e", "a", "g", "u", "e">>}
            THEN _build_football_section(
                     sports.football \o SelectSeq(teams, unclassified),
                     leagues, schedule, scores, analysis)
            ELSE <<>>
        tennis_players == SelectSeq(players, _is_tennis_player)
        tennis_section ==
            IF tennis_players # <<>> \/ sports.tennis # <<>>
            THEN _build_tennis_section(tennis_players, player_news)
            ELSE <<>>
        f1_section ==
            IF \/ sports.f1 # <<>>
               \/ \E i \in DOMAIN teams : Contains(<<"F", "1">>, teams[i])
               \/ \E i \in DOMAIN teams : Contains(<<"F", "o", "r", "m",
                 "u", "l", "a">>, teams[i])
            THEN _build_f1_section(schedule, scores)
            ELSE <<>>
    IN  SelectSeq(<<football_section, tennis_section, f1_section>>,
                  LAMBDA s : s # <<>>)

\* a digest_agent without the generic layout
digest_agent_sections(state) ==
    LET sections == DigestSections(state)
        digest == Join(<<"\n", "\n">>, sections)
    IN  [sections |-> sections, final_digest |-> digest,
         messages |-> <<digest>>]

\* digest_agent: the sections joined, or the generic layout when there is
\* none; sections is its local list
digest_agent(state) ==
    LET \* the generic layout: results, schedule, news, each cut to 300 characters
        GenericLayout(scores, schedule, player_news) ==
            <<GenericHeadings[1], "\n">> \o Prefix(scores, DigestCut)
                \o <<"\n", "\n", GenericHeadings[2], "\n">>
                \o Prefix(schedule, DigestCut)
                \o <<"\n", "\n", GenericHeadings[3], "\n">>
                \o Prefix(player_news, DigestCut)
    IN  LET sections == DigestSections(state)
            digest == IF sections # <<>>
                      THEN Join(<<"\n", "\n">>, sections)
                      ELSE GenericLayout(state.scores, state.schedule,
                                         state.player_news)
        IN  [sections |-> sections, final_digest |-> digest,
             messages |-> <<digest>>]

InitDigest ==
    LET \* the preferences and the outputs of the task nodes the digest is built of
        DigestTeams ==
            {<<>>,
             <<<<"S", "a", "n", "t", "o", "s", " ", "F", "C">>>>,
             <<<<"w", "t", "a">>>>,
             <<<<"A", "T", "P", " ", "F", "1">>>>,
             <<<<"F", "e", "r", "r", "a", "r", "i">>>>,
             <<<<"S", "a", "n", "t", "o", "s", " ", "F", "C">>,
               <<"A", "T", "P", " ", "F", "1">>>>}
        DigestLeagues ==
            {<<>>,
             <<<<"C", "h", "a", "m", "p", "i", "o", "n", "s", " ", "L", "e", "a",
               "g", "u", "e">>>>,
             <<<<"W", "i", "m", "b", "l", "e", "d", "o", "n">>>>}
        DigestPlayers ==
            {<<>>,
             <<<<"S", "i", "n", "n", "e", "r">>>>,
             <<<<"N", "e", "y", "m", "a", "r">>>>}
        LongText == [i \in 1..(DigestCut + 1) |-> "a"]
        ScheduleTexts ==
            {<<>>, LongText,
             <<"F", "1", " ", "r", "a", "c", "e", " ", "S", "u", "n", "d", "a",
               "y", ".", " ", "S", "a", "n", "t", "o", "s", " ", "F", "C", " ",
               "p", "l", "a", "y", ".">>}
        ScoresTexts ==
            {<<>>,
             <<"S", "a", "n", "t", "o", "s", " ", "F", "C", " ", "w", "o", "n",
               ".", " ", "C", "h", "a", "m", "p", "i", "o", "n", "s", " ", "f",
               "i", "n", "a", "l", " ", "s", "e", "t", ".">>}
        NewsTexts ==
            {<<>>,
             <<"S", "i", "n", "n", "e", "r", " ", "w", "o", "n", ".">>}
    IN  /\ file = [u \in UserIds |-> NoRecord]
        /\ jobs = EmptyBag
        /\ running = FALSE
        /\ now = 0
        /\ last \in {[op |-> "state", teams |-> t, players |-> p, leagues |-> l,
                      schedule |-> sc, scores |-> so, player_news |-> pn,
                      analysis |-> <<>>] :
                        t \in DigestTeams, p \in DigestPlayers,
                        l \in DigestLeagues, sc \in ScheduleTexts,
                        so \in ScoresTexts, pn \in NewsTexts}
        /\ appended = [u \in UserIds |-> <<>>]
        /\ thr = [t \in Threads \cup {MainThread} |-> IdleThread]
        /\ graph = IdleGraph

\* digest_agent(state)
RunDigest ==
    /\ last.op = "state"
    /\ last' = [op |-> "digest_agent", teams |-> last.teams,
                players |-> last.players, leagues |-> last.leagues,
                schedule |-> last.schedule, scores |-> last.scores,
                player_news |-> last.player_news,
                analysis |-> last.analysis, result |-> digest_agent(last)]
    /\ UNCHANGED <<file, jobs, running, now, appended, thr, graph>>

SpecDigest == InitDigest /\ [][RunDigest]_vars

----------------------------------------------------------------------------
(* Runs of the graph in which every provider call and every tool call       *)
(* returns: no node raises, and a node that has started comes to return;    *)
(* graph.invoke goes on as long as a node of the step is to run             *)

NextGraphFair ==
    \/ \E u \in UserIds : GraphInvoke(u)
    \/ \E n \in Nodes : NodeStart(n)
    \/ \E n \in TaskNodes : TaskFinish(n)
    \/ DigestFinish
    \/ StepCommit
    \/ GraphReturn

SpecGraphFair ==
    InitStored /\ [][NextGraphFair]_vars /\ WF_vars(NextGraphFair)

----------------------------------------------------------------------------
(* The timer next to two request threads that configure and delete user    *)
(* u1: a job left behind by an interleaving of the two handlers fires for   *)
(* a user without preferences                                               *)

SpecOrphan ==
    InitStored /\
    [][
        \/ \E t \in Threads :
               ConcConfigureSave(t, "u1", <<T0700, "America/Sao_Paulo">>)
        \/ \E t \in Threads : ConcSchedule(t)
        \/ \E t \in Threads : ConcDelete(t, "u1")
        \/ \E t \in Threads : ConcUnschedule(t)
        \/ \E u \in UserIds : OnFire(u)
    ]_vars

----------------------------------------------------------------------------
(* Properties *)

\* a job whose trigger has the hour, minute and zone of a stored record
TriggerMirrors(j, prefs) ==
    LET parts == Split(prefs.delivery_time, ":")
    IN  /\ Len(parts) = 2
        /\ IsInt(parts[1]) /\ IsInt(parts[2])
        /\ j.trigger.hour = IntOf(parts[1])
        /\ j.trigger.minute = IntOf(parts[2])
        /\ j.trigger.timezone = prefs.timezone

\* the entries get_scheduled_jobs lists under the job id of a user
ListedFor(listing, user_id) ==
    BagCardinality([x \in {y \in BagToSet(listing) : y.id = JobId(user_id)}
                       |-> CopiesIn(x, listing)])

\* C1: in every state reached through the handlers, the restore of
\* start_scheduler and direct schedule_daily_digest / unschedule_digest
\* calls, the job table holds at most one job per user_id.
C1_AtMostOneJobPerUser ==
    \A u \in UserIds : JobCount(jobs, JobId(u)) <= 1

\* a user that already had a job was scheduled again and has one job
C1_Witness ==
    /\ last.op \in {"update_preferences", "schedule_daily_digest"}
    /\ last.had_job
    /\ JobCount(jobs, JobId(last.user)) = 1

\* C2: after schedule_daily_digest(u, t, tz) with a time and zone that make
\* a trigger, get_scheduled_jobs lists exactly one job for u, and calling
\* schedule_daily_digest again with the same arguments leaves the table as
\* the first call left it.
C2_ScheduleIdempotent ==
    (/\ last.op = "schedule_daily_digest"
     /\ BuildTrigger(last.delivery_time, last.timezone).ok)
    => /\ ListedFor(get_scheduled_jobs(jobs), last.user) = 1
       /\ schedule_daily_digest(jobs, last.user, last.delivery_time,
                                last.timezone) = jobs

\* schedule_daily_digest has just replaced the job of a user
C2_Witness ==
    /\ last.op = "schedule_daily_digest"
    /\ BuildTrigger(last.delivery_time, last.timezone).ok
    /\ last.had_job
    /\ \E u \in UserIds : u # last.user /\ HasJob(jobs, u)

\* C3: once configure_interests or update_preferences has answered 200,
\* the user has a job whose trigger has the hour, minute and zone of the
\* stored delivery_time and timezone (no trigger of earlier values stays).
C3_TriggerMirrorsPreferences ==
    (/\ last.op \in {"configure_interests", "update_preferences"}
     /\ last.status = 200)
    => /\ HasJob(jobs, last.user)
       /\ \A j \in JobsWithId(jobs, JobId(last.user)) :
              TriggerMirrors(j, file[last.user])

\* C4: when delete_user_preferences(u) has answered 200, no job of u is
\* left in the table or listed by get_scheduled_jobs, and a generate_digest(u)
\* that follows answers 404.
C4_DeleteThenNotFound ==
    [][/\ (last'.op = "delete_user_preferences" /\ last'.status = 200)
          => /\ ~HasJob(jobs', last'.user)
             /\ ListedFor(get_scheduled_jobs(jobs'), last'.user) = 0
       /\ (/\ last.op = "delete_user_preferences" /\ last.status = 200
           /\ last'.op = "generate_digest" /\ last'.user = last.user)
          => last'.status = 404]_vars

\* a user with a job has just been deleted
C4_Witness ==
    /\ last.op = "delete_user_preferences"
    /\ last.status = 200
    /\ last.had_job
    /\ ~file[last.user].present

\* C5: when start_scheduler has run its restore loop, every stored user has
\* a job whose trigger has the stored delivery_time and timezone.
C5_RestoreRecoversEveryUser ==
    (last.op = "start_scheduler" /\ last.ret)
    => \A u \in list_all_users(file) :
           /\ HasJob(jobs, u)
           /\ \A j \in JobsWithId(jobs, JobId(u)) : TriggerMirrors(j, file[u])

\* C6: after any sequence of save_digest_history calls every stored
\* digest_history has at most 30 entries, and they are the most recently
\* appended ones, oldest first.
C6_HistoryCappedFifo ==
    \A u \in UserIds :
        LET h == file[u].digest_history
            a == appended[u]
        IN  /\ Len(h) <= 30
            /\ Len(h) = (IF Len(a) <= 30 THEN Len(a) ELSE 30)
            /\ \A i \in 1..Len(h) : h[i] = a[Len(a) - Len(h) + i]

\* 35 entries were appended for a user: entries 0..4 are gone, 5..34 stay
C6_Witness ==
    \E u \in UserIds :
        /\ Len(appended[u]) = 35
        /\ Len(file[u].digest_history) = 30
        /\ file[u].digest_history[1].timestamp = 5
        /\ file[u].digest_history[30].timestamp = 34

\* C7: when generate_digest(u) has answered 200, get_digest_history(u, 1)
\* is the one entry made of the returned digest and generated_at.
C7_DigestIsLastHistoryEntry ==
    (last.op = "generate_digest" /\ last.status = 200)
    => get_digest_history(file, last.user, 1)
           = <<[digest |-> last.digest, timestamp |-> last.generated_at]>>

\* the entries of a stored history
HistoryEntries(f, user_id) ==
    {f[user_id].digest_history[i] : i \in 1..Len(f[user_id].digest_history)}

\* C8: when two digest runs for one user have both saved their digest,
\* both digests are in that user's history, whatever the interleaving of
\* their storage steps.
C8_BothDigestsStored ==
    \A t1 \in Threads, t2 \in Threads :
        (/\ t1 # t2
         /\ thr[t1].pc = "done" /\ thr[t2].pc = "done"
         /\ thr[t1].saved /\ thr[t2].saved
         /\ thr[t1].user = thr[t2].user)
        => \A t \in {t1, t2} :
               [digest |-> thr[t].digest, timestamp |-> thr[t].timestamp]
                   \in HistoryEntries(file, thr[t].user)

\* C9: a run of generate_and_send_digest, whatever fails in it, lets no
\* exception out, leaves the scheduler running and the job table as it was.
C9_FireFailuresSwallowed ==
    [][last'.op = "generate_and_send_digest"
       => (~last'.propagated /\ running' /\ jobs' = jobs)]_vars

\* the graph raised in a scheduled run while another user has a job
C9_Witness ==
    /\ last.op = "generate_and_send_digest"
    /\ last.status = 3
    /\ \E u \in UserIds : u # last.user /\ HasJob(jobs, u)

\* C10: in every graph run, digest_node does not start before each of the
\* four task nodes has returned and its update has been merged into the state.
C10_DigestAfterJoin ==
    (graph.status = "running" /\ "digest_node" \in graph.started)
    => \A n \in TaskNodes :
           /\ graph.ran[n] >= 1
           /\ n \notin graph.active
           /\ graph.state[Slot(n)] # None

\* digest_node is running over a state that holds the four outputs and a
\* tool call
C10_Witness ==
    /\ graph.status = "running"
    /\ "digest_node" \in graph.started
    /\ \A n \in TaskNodes : graph.state[Slot(n)] \in Texts
    /\ Len(graph.state.messages) = 4
    /\ Len(graph.state.tool_calls) >= 1

\* the orders in which the nodes of a set may hand in their updates
Orders(ns) ==
    {p \in [1..Cardinality(ns) -> ns] :
        \A i, j \in DOMAIN p : i # j => p[i] # p[j]}

TaskOrders == Orders(TaskNodes)

\* a list as a multiset
SeqToBag(s) ==
    [x \in {s[i] : i \in DOMAIN s} |-> Cardinality({i \in DOMAIN s : s[i] = x})]

\* C11: when the four task nodes have returned, merging their updates into
\* the state in any order gives the multiset of messages, the multiset of
\* tool_calls and the value of every output slot that the merge of the step
\* gives, so any two orders give the same.
C11_MergeOrderIndependent ==
    (graph.status = "running" /\ graph.finished = TaskNodes)
    => \A p \in TaskOrders :
           LET a == MergeInOrder(graph.state, graph.writes, p)
               b == MergeWrites(graph.state, graph.writes, 1)
           IN  /\ SeqToBag(a.messages) = SeqToBag(b.messages)
               /\ SeqToBag(a.tool_calls) = SeqToBag(b.tool_calls)
               /\ \A s \in SlotNames : a[s] = b[s]

\* the four task nodes have returned different texts and two of them made a
\* tool request
C11_Witness ==
    /\ graph.status = "running"
    /\ graph.finished = TaskNodes
    /\ graph.writes["schedule_node"].value # graph.writes["scores_node"].value
    /\ graph.writes["player_node"].tool_calls # <<>>
    /\ graph.writes["analysis_node"].tool_calls # <<>>

\* the node that owns each output slot
SlotOwner ==
    [schedule |-> "schedule_node", scores |-> "scores_node",
     player_news |-> "player_node", analysis |-> "analysis_node",
     final_digest |-> "digest_node"]

\* C12: in a graph run every output slot is set at most once and only by the
\* node that owns it, and a run that ends has set final_digest exactly once,
\* by digest_node.
C12_SlotsWrittenOnceByOwner ==
    graph.status \in {"running", "done"}
    => /\ \A s \in SlotNames :
              /\ Len(graph.writers[s]) <= 1
              /\ \A i \in DOMAIN graph.writers[s] :
                     graph.writers[s][i] = SlotOwner[s]
       /\ graph.status = "done"
              => graph.writers["final_digest"] = <<"digest_node">>

\* a run has ended with each of the five slots set by its owner
C12_Witness ==
    /\ graph.status = "done"
    /\ \A s \in SlotNames : graph.writers[s] = <<SlotOwner[s]>>
    /\ graph.state["final_digest"] # None

\* C13 as stated: no task node takes an output slot from the state it is
\* handed; only digest_node does.
C13_NoTaskNodeReadsSlot ==
    graph.status = "running" => \A n \in TaskNodes : graph.seen[n] = {}

\* C13: the output slots a task node takes from its state are never set when
\* it runs: analysis_agent asks for schedule and scores and finds the default
\* of an unset key whether or not the other task nodes have returned, so what
\* a task node returns rests on the initial state and the provider alone.
C13_TaskNodesSeeUnsetSlots ==
    graph.status = "running"
    => \A n \in TaskNodes :
           /\ \A r \in graph.seen[n] : r[2] = ""
           /\ n \in graph.started => graph.state = InitialState

\* analysis_node starts after schedule_node and scores_node have returned
C13_Witness ==
    /\ graph.status = "running"
    /\ {"schedule_node", "scores_node"} \subseteq graph.finished
    /\ "analysis_node" \in graph.started
    /\ graph.seen["analysis_node"] = {<<"schedule", "">>, <<"scores", "">>}

\* C14: a graph run in which a task node raised stays failed, and when it is
\* over generate_digest answers with an error and no digest,
\* generate_and_send_digest ends without a digest, and on both paths the
\* stored data, histories included, is what it was.
C14_FailedRunLeavesNothing ==
    [][/\ graph.status = "failed" => graph'.status \in {"failed", "idle"}
       /\ (thr["t1"].pc = "graph" /\ graph.status = "failed"
             /\ thr'["t1"].pc = "idle")
          => /\ file' = file
             /\ appended' = appended
             /\ last'.digest = ""
             /\ ~last'.ret
             /\ last'.op = "generate_digest" => last'.status = 500
             /\ last'.op = "generate_and_send_digest" => last'.status = 3]_vars

\* generate_digest has answered 500 for a stored user whose run failed
C14_Witness ==
    /\ last.op = "generate_digest"
    /\ last.status = 500
    /\ load_preferences(file, last.user).present
    /\ get_digest_history(file, last.user, 1) = <<>>
    /\ graph.status = "idle"

\* C15: a delivery_time or timezone that yields no trigger is rejected:
\* schedule_daily_digest called with one lets its caller know, and
\* configure_interests or update_preferences does not answer 200 and leave
\* stored values from which no job can be built.
C15_MalformedRejected ==
    /\ (/\ last.op = "schedule_daily_digest"
        /\ ~BuildTrigger(last.delivery_time, last.timezone).ok)
       => last.propagated
    /\ (/\ last.op \in {"configure_interests", "update_preferences"}
        /\ last.status = 200)
       => BuildTrigger(file[last.user].delivery_time,
                       file[last.user].timezone).ok

\* C16: unschedule_digest(u) called when the table holds no job of u returns
\* False and leaves the table as it was.
C16_UnscheduleAbsentIsNoOp ==
    [][(last'.op = "unschedule_digest" /\ ~HasJob(jobs, last'.user))
       => (~last'.ret /\ jobs' = jobs)]_vars

\* unschedule_digest has returned False for a user without a job while the
\* other user has one
C16_Witness ==
    /\ last.op = "unschedule_digest"
    /\ ~last.had_job
    /\ ~last.ret
    /\ \E u \in UserIds : u # last.user /\ HasJob(jobs, u)

\* C17: unschedule_digest(u) called when the table holds the job of u
\* returns True and removes that job and no other: every other job is in the
\* table as often as before.
C17_UnscheduleRemovesOnlyOwnJob ==
    [][(last'.op = "unschedule_digest" /\ HasJob(jobs, last'.user))
       => /\ last'.ret
          /\ ~HasJob(jobs', last'.user)
          /\ \A j \in BagToSet(jobs) \cup BagToSet(jobs') :
                 j.id # JobId(last'.user)
                     => CopiesIn(j, jobs') = CopiesIn(j, jobs)]_vars

\* unschedule_digest has removed the job of a user and the other user's job
\* is still there
C17_Witness ==
    /\ last.op = "unschedule_digest"
    /\ last.had_job
    /\ last.ret
    /\ ~HasJob(jobs, last.user)
    /\ \E u \in UserIds : u # last.user /\ HasJob(jobs, u)

\* the handlers that look the user up before anything else
LookupHandlers ==
    {"generate_digest", "update_preferences", "delete_user_preferences",
     "digest_history"}

\* C18: generate_digest, update_preferences, delete_user_preferences and
\* digest_history called for a user without stored preferences answer 404
\* and leave the preference store, the histories and the job table as they
\* were.
C18_NotFoundChangesNothing ==
    [][(/\ last'.op \in LookupHandlers
        /\ ~load_preferences(file, last'.user).present)
       => /\ last'.status = 404
          /\ file' = file
          /\ appended' = appended
          /\ jobs' = jobs]_vars

\* update_preferences has answered 404 while another user is stored, has a
\* job and a history
C18_Witness ==
    /\ last.op = "update_preferences"
    /\ last.status = 404
    /\ ~load_preferences(file, last.user).present
    /\ \E u \in UserIds :
           /\ u # last.user
           /\ HasJob(jobs, u)
           /\ get_digest_history(file, u, 1) # <<>>

\* C19: once stop_scheduler has been called no run of
\* generate_and_send_digest begins, and stop_scheduler does not return while
\* one is going on: when it has returned none is running and none begins.
C19_StopWaitsForFires ==
    [][/\ thr'[MainThread].pc = "stopped"
          => \A t \in Threads : ~FireInFlight(thr', t)
       /\ thr[MainThread].pc # "idle"
          => \A t \in Threads :
                 ~FireInFlight(thr, t) => ~FireInFlight(thr', t)]_vars

\* stop_scheduler has returned, and the last call that ended after it was
\* called is a generate_and_send_digest that saved its digest
C19_Witness ==
    /\ thr[MainThread].pc = "stopped"
    /\ last.op = "generate_and_send_digest"
    /\ last.ret
    /\ \E u \in UserIds : HasJob(jobs, u) /\ get_digest_history(file, u, 1) # <<>>

\* C20: what _compact returns is never longer than the limit it was given,
\* and _compact applied to it with the same limit returns it unchanged.
C20_CompactIdempotentBounded ==
    /\ last.op \in {"_compact", "_compact_again"}
       => Len(last.result) <= last.limit
    /\ last.op = "_compact_again" => last.result = last.first

\* a text longer than the limit, with a run of whitespace, was cut at a word
\* boundary, stripped of a trailing comma, and compacted again
C20_Witness ==
    /\ last.op = "_compact_again"
    /\ Len(last.text) > last.limit
    /\ \E i \in 1..(Len(last.text) - 1) :
           last.text[i] \in Whitespace /\ last.text[i + 1] \in Whitespace
    /\ last.first # <<>>
    /\ Len(last.first) < last.limit
    /\ last.text[Len(last.first) + 1] = ","

\* the whitespace-delimited words of a text
WordsOf(s) == SplitScan(s, 1, <<>>, <<>>)

\* C21: every word of what _compact returns is a word of the text it was
\* given, or such a word with its trailing punctuation stripped: no word is
\* cut in two, also when the first limit characters hold no space.
C21_CompactKeepsWordsWhole ==
    last.op = "_compact"
    => \A i \in DOMAIN WordsOf(last.result) :
           \E j \in DOMAIN WordsOf(last.text) :
               \/ WordsOf(last.result)[i] = WordsOf(last.text)[j]
               \/ WordsOf(last.result)[i]
                      = RStrip(WordsOf(last.text)[j], StripChars)

\* C22: _classify_sport puts every item of teams + leagues in exactly one of
\* the buckets football, tennis and f1: the three buckets together hold each
\* item as often as the input does, so their sizes add up to its length.
C22_ClassifyTotal ==
    last.op = "_classify_sport"
    => LET s == last.sports
           all_items == last.teams \o last.leagues
       IN  /\ DOMAIN s = {"football", "tennis", "f1"}
           /\ Len(s.football) + Len(s.tennis) + Len(s.f1) = Len(all_items)
           /\ SeqToBag(s.football \o s.tennis \o s.f1) = SeqToBag(all_items)

\* every bucket got an item, one of them a name that holds keywords of two
\* lists and one a name that holds none
C22_Witness ==
    /\ last.op = "_classify_sport"
    /\ \E i \in DOMAIN last.sports.f1 :
           AnyKeyword(tennis_keywords, last.sports.f1[i])
    /\ last.sports.tennis # <<>>
    /\ \E i \in DOMAIN last.sports.football :
           ~AnyKeyword(football_keywords, last.sports.football[i])
    /\ last.leagues # <<>>

\* C23: a call of a tool lets no exception out, whatever its sources
\* answer: it returns a string.
C23_ToolNeverRaises ==
    last.op = "tool" => ~last.result.raised

\* specialized sources first, then the web search, then the provider
SourceRank(src) ==
    CASE src \in {"api_football", "ergast"} -> 1
      [] src = "web" -> 2
      [] src = "llm" -> 3

\* the sources asked before the last one yielded nothing, and the string
\* returned is what the last one yielded
FirstSuccessWins(r, answers) ==
    /\ \A i \in 1..(Len(r.consulted) - 1) :
           Yields(r.consulted[i], answers) = "none"
    /\ ~r.raised
       => /\ r.source = r.consulted[Len(r.consulted)]
          /\ Yields(r.source, answers) = "value"
          /\ r.value = ValueOf(r.source, answers)

\* C24 as stated: every tool asks its sources in the order specialized
\* source, web search, provider, and returns what the first success gave
\* without asking a later source.
C24_FixedSourceOrder ==
    last.op = "tool"
    => /\ \A i, j \in DOMAIN last.result.consulted :
              i < j => SourceRank(last.result.consulted[i])
                           <= SourceRank(last.result.consulted[j])
       /\ FirstSuccessWins(last.result, last.answers)

\* C24: every tool asks its sources in a fixed order of its own and returns
\* what the first success gave without asking a later source; the order is
\* specialized source, web search, provider for every tool but
\* champions_league_summary, which asks the web search before the
\* specialized source.
C24_OwnSourceOrder ==
    last.op = "tool"
    => /\ last.result.consulted
              = SubSeq(last.chain, 1, Len(last.result.consulted))
       /\ FirstSuccessWins(last.result, last.answers)
       /\ last.tool # "champions_league_summary"
              => \A i, j \in DOMAIN last.chain :
                     i < j => SourceRank(last.chain[i])
                                  <= SourceRank(last.chain[j])
       /\ last.tool = "champions_league_summary"
              => last.chain = <<"web", "api_football", "llm">>

\* champions_league_summary has returned what the specialized source gave
\* after the web search gave nothing, without asking the provider
C24_Witness ==
    /\ last.op = "tool"
    /\ last.tool = "champions_league_summary"
    /\ last.result.consulted = <<"web", "api_football">>
    /\ ~last.result.raised
    /\ last.result.value = ApiText
    /\ last.answers.llm.ok

\* C25: when the specialized sources and the web search of a tool call have
\* yielded nothing and the tool returns, it returns the provider's answer
\* and that string is not empty.
C25_FallbackNonEmpty ==
    (/\ last.op = "tool"
     /\ ~last.result.raised
     /\ \A i \in DOMAIN last.chain :
            last.chain[i] # "llm" => Yields(last.chain[i], last.answers) = "none")
    => /\ last.result.source = "llm"
       /\ last.result.value # <<>>

\* C26: digest_agent calls neither the provider nor a tool: from the step
\* in which the digest node is scheduled to the end of the run, the numbers
\* of provider calls and of tool calls of the run do not change.
C26_DigestMakesNoCalls ==
    [][(/\ graph.status = "running"
        /\ "digest_node" \in graph.active
        /\ graph'.status \in {"running", "done"})
       => graph'.calls = graph.calls]_vars

\* a run is over in which the task nodes called the provider and tools and
\* the digest node has run
C26_Witness ==
    /\ graph.status = "done"
    /\ graph.ran["digest_node"] = 1
    /\ graph.state["final_digest"] # None
    /\ graph.calls.llm > 4
    /\ graph.calls.tool > 0

\* C27: get_digest_history(u, limit) returns at most limit entries, for
\* limit 0 too, and they are the last entries of the stored history of u in
\* the stored order (oldest first).
C27_HistoryAtMostLimit ==
    last.op = "get_digest_history"
    => LET h == file[last.user].digest_history
           k == IF last.limit < Len(h) THEN last.limit ELSE Len(h)
       IN  /\ Len(last.result) <= last.limit
           /\ last.result = SubSeq(h, Len(h) - k + 1, Len(h))

\* C30: update_preferences and configure_interests for a user who has a
\* record leave the stored digest history of that user as it was.
C30_SaveKeepsHistory ==
    [][(/\ last'.op \in {"update_preferences", "configure_interests"}
        /\ last'.status = 200
        /\ file[last'.user].present)
       => file'[last'.user].digest_history
              = file[last'.user].digest_history]_vars

\* C29: whenever no handler is in progress, a user has a scheduled job if
\* and only if preferences are stored for that user, however the calls of
\* configure_interests, update_preferences and delete_user_preferences
\* interleave.
C29_JobIffPreferences ==
    (\A t \in Threads : thr[t].pc = "idle")
    => \A u \in UserIds : HasJob(jobs, u) <=> file[u].present

\* C28: the messages and the tool_calls of the final state of a run hold
\* the entries that the nodes of that run have emitted (the texts of its
\* four task nodes, the digest composed of them, its own tool calls) and no
\* entry of an earlier run or of a run going on at the same time.
C28_RunOwnsItsState ==
    \A t \in Threads :
        thr[t].pc = "done"
        => LET st == thr[t].data.state
               own == RunText(thr[t].data.id)
           IN  /\ Len(st.messages) = Cardinality(Nodes)
               /\ \A i \in 1..Cardinality(TaskNodes) : st.messages[i] = own
               /\ st.messages[Len(st.messages)] = <<own, own, own, own>>
               /\ Len(st.tool_calls) \in {0, Cardinality(TaskNodes)}
               /\ \A i \in DOMAIN st.tool_calls :
                      st.tool_calls[i].tool.run = thr[t].data.id

\* the third run started is over, with tool calls, while the run of the
\* other thread, which has written entries too, is still going on
C28_Witness ==
    /\ thr["t1"].pc = "done"
    /\ thr["t1"].data.id = 2
    /\ thr["t1"].data.state.tool_calls # <<>>
    /\ thr["t2"].pc = "digest"
    /\ thr["t2"].data.state.tool_calls # <<>>
    /\ thr["t2"].user = thr["t1"].user

\* C31: a storage operation on one user leaves the stored record of every
\* other user as it is, however the operations of the threads interleave.
C31_OtherUsersUntouched ==
    [][\A t \in Threads :
          (thr[t].pc = "store_save" /\ thr'[t].pc = "idle")
          => \A v \in UserIds \ {thr[t].user} : file'[v] = file[v]]_vars

\* C32: a task node whose first answer requests no tool calls the provider
\* once and takes the text of that answer; when the answer requests k >= 1
\* tools the node records k tool_calls entries in the order of the requests
\* under its own name, runs the tools, calls the provider once more and
\* takes the text of the second answer.
C32_TaskNodeCalls ==
    last.op = "task_agent"
    => LET requests == last.first.tool_calls
           r == last.result
       IN  IF requests = <<>>
           THEN /\ r.calls = [llm |-> 1, tool |-> 0]
                /\ r.update.value = last.first.content
                /\ r.update.tool_calls = <<>>
                /\ r.dispatched = <<>>
           ELSE /\ r.calls = [llm |-> 2, tool |-> Len(requests)]
                /\ r.update.value = last.second
                /\ r.update.tool_calls
                       = [i \in DOMAIN requests |->
                             [agent |-> AgentName(last.node),
                              tool |-> requests[i]]]
                /\ r.dispatched = requests

\* a node has run on a first answer with two different requests and on a
\* second answer of another text
C32_Witness ==
    /\ last.op = "task_agent"
    /\ Len(last.first.tool_calls) = 2
    /\ last.first.tool_calls[1] # last.first.tool_calls[2]
    /\ last.second # last.first.content
    /\ last.result.update.value = last.second

\* C33: the messages a task node emits are its rendered instruction, then
\* every tool result, then its final text.
C33_EmitsInstructionAndResults ==
    last.op = "task_agent"
    => last.result.update.messages
           = <<Instruction(last.node)>>
                 \o [i \in DOMAIN last.first.tool_calls |->
                        ToolResult(last.first.tool_calls[i])]
                 \o <<last.result.update.value>>

\* the titles of the sections, in the order of the sections
SectionTitles == <<FootballTitle, TennisTitle, F1Title>>

\* the positions of a symbol in a text
Positions(sym, text) == {i \in DOMAIN text : text[i] = sym}

\* C34: the digest holds one titled section for each category that
\* _classify_sport reports as non-empty, and the sections it holds come in
\* the order football, tennis, f1.
C34_SectionPerCategory ==
    last.op = "digest_agent"
    => LET sports == _classify_sport(last.teams, last.leagues)
           digest == last.result.final_digest
           at(k) == Positions(SectionTitles[k], digest)
       IN  /\ sports.football # <<>> => Cardinality(at(1)) = 1
           /\ sports.tennis # <<>> => Cardinality(at(2)) = 1
           /\ sports.f1 # <<>> => Cardinality(at(3)) = 1
           /\ \A j, k \in 1..3 :
                  j < k => \A a \in at(j), b \in at(k) : a < b

\* C35: digest_agent gives the generic layout (results, schedule, news,
\* each raw output cut to 300 characters) exactly when it has built no
\* section, and the final_digest it sets is never empty.
C35_GenericLayoutIffNoSection ==
    last.op = "digest_agent"
    => LET digest == last.result.final_digest
           generic == <<GenericHeadings[1], "\n">>
                          \o Prefix(last.scores, DigestCut)
                          \o <<"\n", "\n", GenericHeadings[2], "\n">>
                          \o Prefix(last.schedule, DigestCut)
                          \o <<"\n", "\n", GenericHeadings[3], "\n">>
                          \o Prefix(last.player_news, DigestCut)
           titled == \E k \in 1..3 : Positions(SectionTitles[k], digest) # {}
       IN  /\ digest # <<>>
           /\ last.result.sections = <<>> <=> digest = generic
           /\ last.result.sections # <<>> <=> titled
           /\ titled => \A k \in 1..3 :
                            Positions(GenericHeadings[k], digest) = {}

\* the generic layout was given for a schedule of more than 300 characters,
\* of which it holds 300, although a category was not empty
C35_Witness ==
    /\ last.op = "digest_agent"
    /\ last.result.sections = <<>>
    /\ Len(last.schedule) > DigestCut
    /\ Cardinality(Positions("a", last.result.final_digest)) = DigestCut
    /\ last.teams # <<>>

\* C36: when every call returns, a run of the graph comes to its end: no
\* node runs twice, and a run under way leads to a finished run in which
\* each of the four task nodes and the digest node has run once and
\* final_digest is set.
C36_RunTerminates ==
    /\ [](graph.status \in {"running", "done"}
              => \A n \in Nodes : graph.ran[n] <= 1)
    /\ (graph.status = "running")
           ~> (/\ graph.status = "done"
               /\ \A n \in Nodes : graph.ran[n] = 1
               /\ graph.state["final_digest"] # None)

\* a run has reached END after its second step, every node having run once
C36_Witness ==
    /\ graph.status = "done"
    /\ graph.step = 3
    /\ \A n \in Nodes : graph.ran[n] = 1
    /\ graph.state["final_digest"] # None
    /\ Len(graph.state["messages"]) = Cardinality(Nodes)

\* C37: when the job of a user without stored preferences fires,
\* generate_and_send_digest ends before graph.invoke (at the load or at the
\* missing preferences): the graph is not run, no history entry is appended
\* and no record is created.
C37_FireWithoutPreferences ==
    [][\A u \in UserIds :
          (OnFire(u) /\ ~file[u].present)
          => /\ last'.status \in {1, 2}
             /\ ~last'.ret
             /\ file' = file
             /\ appended' = appended]_vars

\* the job of a user whose record is gone has fired and returned at the
\* missing preferences; the job is still there
C37_Witness ==
    /\ last.op = "generate_and_send_digest"
    /\ last.status = 2
    /\ ~file[last.user].present
    /\ HasJob(jobs, last.user)

\* C38: configure_interests answers with the caller's user_id when one was
\* given and with an id no stored user has otherwise; when it answers 200
\* the record stored under that id carries the id and the request's values,
\* and the job table holds exactly one job for it.
C38_ConfigureStoresAndSchedules ==
    [][\A u \in UserIds \cup {None}, r \in Requests :
          ConfigureInterests(u, r[1], r[2])
          => /\ u # None => last'.user = u
             /\ u = None => ~file[last'.user].present
             /\ last'.status = 200
                => /\ file'[last'.user] = PrefsDict(last'.user, r[1], r[2])
                   /\ file'[last'.user].user_id = last'.user
                   /\ \E j \in BagToSet(jobs') :
                          /\ JobsWithId(jobs', JobId(last'.user)) = {j}
                          /\ CopiesIn(j, jobs') = 1]_vars

\* C39: save_digest_history for a user without a record returns False and
\* leaves the file as it is; delete_preferences(u) returns True exactly when
\* u had a record, and after a True load_preferences(u) finds nothing and the
\* record of every other user is as before.
C39_UnknownUserAndDelete ==
    [][\A u \in UserIds, io \in BOOLEAN :
          /\ (StorageCall("save_digest_history", u, io) /\ ~file[u].present)
             => (~last'.ret /\ file' = file)
          /\ StorageCall("delete_preferences", u, io)
             => /\ last'.ret <=> file[u].present
                /\ last'.ret
                   => /\ ~load_preferences(file', u).present
                      /\ \A v \in UserIds \ {u} : file'[v] = file[v]]_vars

====
